---- MODULE Spec2Model ----
(***************************************************************************)
(* A model of the mock-API registry of ashishkumardas1025/streamlit-example *)
(* (generic.py, unnamed/part_000).  The durable registry is the parsed     *)
(* content of config.yaml: a mapping from normalized path to an ordered    *)
(* list of instances.  Every HTTP handler is one action that reads the     *)
(* registry, works on its private copy and writes it back.                 *)
(***************************************************************************)
EXTENDS Integers, Sequences, FiniteSets, TLC

\* ------------------------------------------------------------------ bounds

\* Number of HTTP calls in one behaviour of the sequential specifications.
MaxCalls == 4

\* Number of HTTP calls in one behaviour when every call's outcome is
\* examined for every input in every state the behaviour reaches.
MaxCrudCalls == 3

\* Length of the path strings normalize_path is applied to, and the number
\* of calls made with them.
MaxPathLen == 3
MaxPathCalls == 2

\* Number of requests one entity server receives.
MaxEntCalls == 3

\* Nesting of the JSON instances handed to jsonschema, and the number of
\* nested calls after which the interpreter raises RecursionError.
MaxNesting == 2
RecursionLimit == 6

\* ------------------------------------------------------------------ values

\* The marker for a key that a dict does not hold.
Absent == "absent"
\* Request and response bodies a client registers (equal serialized length).
Vals == {"v1", "v2"}
\* A truthy schema and a falsy one (the empty dict).
SchemaVal == "s1"
EmptyVal == "empty"
\* What the value generator may return.
GenVals == {"g1", "g2"}

\* Paths as the router delivers them: sequences of characters.
RawPaths == {<<"a">>, <<"a", "/">>, <<"b">>}

\* Every string of slashes and letters up to the length bound.
PathStrings == UNION {[1..n -> {"/", "a"}] : n \in 0..MaxPathLen}

\* A strip that drops one leading slash at most.
LStripOne(s) == IF s # <<>> /\ Head(s) = "/" THEN Tail(s) ELSE s

\* str.strip('/'): drop every leading and every trailing slash.
RECURSIVE LStrip(_)
LStrip(s) == IF s # <<>> /\ Head(s) = "/" THEN LStrip(Tail(s)) ELSE s

RECURSIVE RStrip(_)
RStrip(s) ==
    IF s # <<>> /\ s[Len(s)] = "/" THEN RStrip(SubSeq(s, 1, Len(s) - 1)) ELSE s

Strip(s) == RStrip(LStrip(s))

\* normalize_path: '/' + path.strip('/')
normalize_path(path) == <<"/">> \o Strip(path)

NormPaths == {normalize_path(p) : p \in RawPaths}

\* str.upper() on the method names the clients send.
Upper(m) == CASE m = "post" -> "POST"
              [] m = "get" -> "GET"
              [] OTHER -> m

\* The methods a registration body may carry (Absent: no "method" key).
MethodInputs == {Absent, "post"}

\* data.get("method", "POST").upper()
MethodOf(data) == Upper(IF data.method = Absent THEN "POST" ELSE data.method)

\* ------------------------------------------------------------------ state

VARIABLES
    endpoints,  \* config["endpoints"] as stored in config.yaml
    nextId,     \* the next identifier uuid.uuid4() returns
    last,       \* the last call: operation, path, status, wrote, body
    calls,      \* the number of calls made so far
    aiEndpoints, \* config["endpoints"] of part_000: path -> id -> endpoint
    file,       \* concurrent requests: the instance records in config.yaml
    procs,      \* concurrent requests: each register_endpoint call
    reader,     \* concurrent requests: what a read_config of a GET returned
    complete,   \* the registries config.yaml held before or after a write
    raw,        \* two path strings as clients spell them
    normalized, \* normalize_path of both, applied once and twice
    payload,    \* validators: the JSON object of a request body
    schema,     \* validators: the request schema of the operation
    errors,     \* what SchemaValidator.validate_schema returned
    raised,     \* what validate_request_body of app.py raised
    impl,       \* entity servers: app.py, schema_validator.py or utils.py
    store,      \* GenericAPIHandler.store: entity type -> id -> entity
    id_counters, \* GenericAPIHandler.id_counters: entity type -> next id
    storage,    \* GenericAPIHandler.storage of utils.py: type -> entities
    deleted     \* the (path, id) pairs of the instances deleted so far

seqVars == <<endpoints, nextId, last, calls, aiEndpoints>>
concVars == <<file, procs, reader, complete>>
pathVars == <<raw, normalized>>
valVars == <<payload, schema, errors, raised>>
entVars == <<impl, store, id_counters, storage>>
histVars == <<deleted>>
restVars == <<pathVars, valVars, entVars, histVars>>
vars == <<endpoints, nextId, last, calls, aiEndpoints, file, procs, reader,
          complete, raw, normalized, payload, schema, errors, raised, impl,
          store, id_counters, storage, deleted>>

\* An instance dict, one field per key the handlers read or compare; the
\* timestamps created_at and updated_at, which no handler reads, are left out.
Instance(id, method, req, resp, reqS, respS, genQ, genS) ==
    [id |-> id, method |-> method, request |-> req, response |-> resp,
     request_schema |-> reqS, response_schema |-> respS,
     generated_request |-> genQ, generated_response |-> genS]

\* new_instance of register_endpoint
RegisteredInstance(id, method, req, resp) ==
    Instance(id, method, req, resp, Absent, Absent, Absent, Absent)

\* new_instance of handle_dynamic_request_response
GeneratedInstance(id, genQ, genS) ==
    Instance(id, "POST", Absent, Absent, Absent, Absent, genQ, genS)

\* The record of a call: the handler, the normalized path, the response's
\* status and message, whether write_config ran and how many times, and the
\* generated data of the response body.
Call(op, path, status, message, wrote, body) ==
    [op |-> op, path |-> path, status |-> status, message |-> message,
     wrote |-> wrote, writes |-> IF wrote THEN 1 ELSE 0, body |-> body]

NoCall == Call("none", <<>>, 0, "", FALSE, <<>>)

\* create_empty_yaml: the file starts as {"endpoints": {}}.
EmptyEndpoints == [p \in {} |-> <<>>]

\* The two concurrent register_endpoint calls.
Procs == {1, 2}

\* The bodies of the concurrent calls: a request and a response.
ConcInputs == [method : {Absent}, request : Vals, response : Vals]

\* The instance config.yaml may already hold under the path.
StoredBefore == RegisteredInstance(0, "POST", "v1", "v1")

\* A call that has not started: no private config, no response yet.
NewProc(data) == [pc |-> "start", data |-> data, config |-> <<>>, status |-> 0]

\* The state once the server is up: an empty registry and no call made.
SeqInit ==
    /\ endpoints = EmptyEndpoints
    /\ nextId = 1
    /\ last = NoCall
    /\ calls = 0
    /\ aiEndpoints = EmptyEndpoints

\* Two requests arrive at a registry that is empty or holds one instance.
ConcInit ==
    /\ file \in {<<>>, <<StoredBefore>>}
    /\ procs \in [Procs -> {NewProc(d) : d \in ConcInputs}]
    /\ reader = [done |-> FALSE, seen |-> <<>>]
    /\ complete = {file}

\* No concurrent requests: the sequential specifications leave these as is.
ConcIdle ==
    /\ file = <<>>
    /\ procs = [p \in Procs |->
                    [pc |-> "done", data |-> [method |-> Absent,
                        request |-> Absent, response |-> Absent],
                     config |-> <<>>, status |-> 0]]
    /\ reader = [done |-> TRUE, seen |-> <<>>]
    /\ complete = {<<>>}

\* normalize_path not applied yet (its result is never empty).
NotYet == <<>>

\* Two spellings of paths, to be normalized.
PathInit ==
    /\ raw \in PathStrings \X PathStrings
    /\ normalized = [once |-> NotYet, twice |-> NotYet]

\* No spellings under study.
PathIdle ==
    /\ raw = <<<<>>, <<>>>>
    /\ normalized = [once |-> NotYet, twice |-> NotYet]

\* The empty dict.
EmptyDict == [f \in {} |-> Absent]

\* A validator that has not run.
NotValidated == [ran |-> FALSE, list |-> <<>>]
NotRaised == [ran |-> FALSE, error |-> Absent]

\* No request body under validation.
ValIdle ==
    /\ payload = EmptyDict
    /\ schema = [required |-> <<>>, properties |-> EmptyDict]
    /\ errors = NotValidated
    /\ raised = NotRaised

\* An entity server just constructed: self.store = {}, self.id_counters =
\* {}, self.storage = {}.
NewHandler == [store |-> EmptyDict, id_counters |-> EmptyDict,
               storage |-> EmptyDict]

\* No entity server running.
EntIdle ==
    /\ impl = "none"
    /\ store = NewHandler.store
    /\ id_counters = NewHandler.id_counters
    /\ storage = NewHandler.storage

\* No instance has been deleted yet.
HistIdle == deleted = {}

RestIdle == PathIdle /\ ValIdle /\ EntIdle /\ HistIdle

Init == SeqInit /\ ConcIdle /\ RestIdle

\* config["endpoints"][path]["instances"] of a registered path.
InstancesOf(e, path) == IF path \in DOMAIN e THEN e[path] ELSE <<>>

\* config["endpoints"][path]["instances"] = insts
SetInstances(e, path, insts) ==
    [q \in DOMAIN e \cup {path} |-> IF q = path THEN insts ELSE e[q]]

\* A deletion that empties the entry of a path and keeps its key.
DelPathEmptied(e, path) == [q \in DOMAIN e |-> IF q = path THEN <<>> ELSE e[q]]

\* del config["endpoints"][path]
DelPath(e, path) == [q \in DOMAIN e \ {path} |-> e[q]]

\* ------------------------------------------------------- register_endpoint

\* The duplicate check of register_endpoint, from instance i on:
\*   for instance in instances:
\*       if instance["request"] == request and instance["response"] == response
\* "dup" when an instance matches, "keyerror" when a subscript finds no key
\* (the `and` reads instance["response"] only after the requests compared
\* equal), "none" when the loop runs to its end.
\* The duplicate check with a slip: the stored response is compared with the
\* request of the body.
RECURSIVE RegisterScanSlip(_, _, _, _)
RegisterScanSlip(insts, i, req, resp) ==
    IF i > Len(insts) THEN "none"
    ELSE IF insts[i].request = Absent THEN "keyerror"
    ELSE IF insts[i].request # req
    THEN RegisterScanSlip(insts, i + 1, req, resp)
    ELSE IF insts[i].response = Absent THEN "keyerror"
    ELSE IF insts[i].response = req THEN "dup"
    ELSE RegisterScanSlip(insts, i + 1, req, resp)

RECURSIVE RegisterScan(_, _, _, _)
RegisterScan(insts, i, req, resp) ==
    IF i > Len(insts) THEN "none"
    ELSE IF insts[i].request = Absent THEN "keyerror"
    ELSE IF insts[i].request # req THEN RegisterScan(insts, i + 1, req, resp)
    ELSE IF insts[i].response = Absent THEN "keyerror"
    ELSE IF insts[i].response = resp THEN "dup"
    ELSE RegisterScan(insts, i + 1, req, resp)

\* Registration bodies: method, request, response (Absent: key missing).
RegisterInputs ==
    [method : MethodInputs, request : Vals \cup {Absent},
     response : Vals \cup {Absent}]

\* What one call of register_endpoint does to a registry e when uuid4()
\* returns id: the registry it leaves in config.yaml, the next identifier and
\* the response.
RegisterOutcome(e, id, path, data) ==
    LET np == normalize_path(path)
        insts == InstancesOf(e, np)
        scan == RegisterScan(insts, 1, data.request, data.response)
        out(status, message) ==
            [endpoints |-> e, nextId |-> id,
             call |-> Call("register", np, status, message, FALSE, <<>>)]
    IN  IF data.request = Absent \/ data.response = Absent
        THEN out(400, "Missing request or response")
        ELSE IF scan = "dup"
        THEN out(400, "Duplicate request and response")
        ELSE IF scan = "keyerror"
        THEN out(500, "KeyError")
        ELSE [endpoints |->
                SetInstances(e, np,
                    Append(insts,
                        RegisteredInstance(id, MethodOf(data), data.request,
                            data.response))),
              nextId |-> id + 1,
              call |-> Call("register", np, 200,
                            "New endpoint registered successfully", TRUE,
                            <<>>)]

\* A call ends: config.yaml holds the registry the call left, and the
\* response is on its way to the client.
Apply(out) ==
    /\ endpoints' = out.endpoints
    /\ nextId' = out.nextId
    /\ last' = out.call

register_endpoint(path, data) ==
    Apply(RegisterOutcome(endpoints, nextId, path, data))

\* --------------------------------------------- get_all_endpoints, get_endpoint

\* A search that settles for the last instance when no id matches.
RECURSIVE FindIdOrLast(_, _, _)
FindIdOrLast(insts, i, endpoint_id) ==
    IF i > Len(insts) THEN Len(insts)
    ELSE IF insts[i].id = endpoint_id THEN i
    ELSE FindIdOrLast(insts, i + 1, endpoint_id)

\* Index of the first instance whose id is endpoint_id, 0 when there is none.
RECURSIVE FindId(_, _, _)
FindId(insts, i, endpoint_id) ==
    IF i > Len(insts) THEN 0
    ELSE IF insts[i].id = endpoint_id THEN i
    ELSE FindId(insts, i + 1, endpoint_id)

\* The list comprehension of get_all_endpoints subscripts "request" and
\* "response" of every instance.
HasPair(inst) == inst.request # Absent /\ inst.response # Absent

\* What one call of get_all_endpoints answers on a registry e.
GetAllOutcome(e, id, path) ==
    LET np == normalize_path(path)
        insts == InstancesOf(e, np)
        call(status, message) ==
            Call("get_all", np, status, message, FALSE, <<>>)
    IN  [endpoints |-> e, nextId |-> id,
         call |-> IF np \notin DOMAIN e
                  THEN call(404, "No endpoints found for the given path")
                  ELSE IF \E i \in 1..Len(insts) : ~HasPair(insts[i])
                  THEN call(500, "KeyError")
                  ELSE call(200, "endpoints found")]

get_all_endpoints(path) == Apply(GetAllOutcome(endpoints, nextId, path))

\* What one call of get_endpoint answers on a registry e.
GetOutcome(e, id, path, endpoint_id) ==
    LET np == normalize_path(path)
        insts == InstancesOf(e, np)
        i == FindId(insts, 1, endpoint_id)
        call(status, message) == Call("get", np, status, message, FALSE, <<>>)
    IN  [endpoints |-> e, nextId |-> id,
         call |-> IF i = 0 THEN call(404, "Endpoint not found")
                           ELSE call(200, "")]

get_endpoint(path, endpoint_id) ==
    Apply(GetOutcome(endpoints, nextId, path, endpoint_id))

\* --------------------------------------------------------- update_endpoint

\* A PUT body: the keys it names (0 or Absent: the key is not in the body).
Patch(id, req, resp, reqS, respS) ==
    [id |-> id, request |-> req, response |-> resp,
     request_schema |-> reqS, response_schema |-> respS]

Patches ==
    {Patch(0, r, Absent, Absent, Absent) : r \in Vals}
    \cup {Patch(0, Absent, r, Absent, Absent) : r \in Vals}
    \cup {Patch(k, Absent, Absent, Absent, Absent) : k \in 1..MaxCalls}
    \cup {Patch(0, Absent, Absent, SchemaVal, s) : s \in {SchemaVal, EmptyVal}}

\* An update that replaces the instance by the body: the keys the body does
\* not name are lost.
DictUpdateReplace(inst, data) ==
    [inst EXCEPT
        !.id = IF data.id = 0 THEN @ ELSE data.id,
        !.request = data.request,
        !.response = data.response,
        !.request_schema = data.request_schema,
        !.response_schema = data.response_schema]

\* instance.update(data)
DictUpdate(inst, data) ==
    [inst EXCEPT
        !.id = IF data.id = 0 THEN @ ELSE data.id,
        !.request = IF data.request = Absent THEN @ ELSE data.request,
        !.response = IF data.response = Absent THEN @ ELSE data.response,
        !.request_schema =
            IF data.request_schema = Absent THEN @ ELSE data.request_schema,
        !.response_schema =
            IF data.response_schema = Absent THEN @ ELSE data.response_schema]

\* What one call of update_endpoint does to a registry e.
UpdateOutcome(e, id, path, endpoint_id, data) ==
    LET np == normalize_path(path)
        insts == InstancesOf(e, np)
        i == FindId(insts, 1, endpoint_id)
        call(status, message, wrote) ==
            Call("update", np, status, message, wrote, <<>>)
    IN  IF i = 0
        THEN [endpoints |-> e, nextId |-> id,
              call |-> call(404, "Endpoint not found", FALSE)]
        ELSE [endpoints |->
                SetInstances(e, np,
                    [insts EXCEPT ![i] = DictUpdate(insts[i], data)]),
              nextId |-> id,
              call |-> call(200, "Endpoint updated successfully", TRUE)]

update_endpoint(path, endpoint_id, data) ==
    Apply(UpdateOutcome(endpoints, nextId, path, endpoint_id, data))

\* ------------------------------------ delete_all_endpoints, delete_endpoint

\* What one call of delete_all_endpoints does to a registry e.
DeleteAllOutcome(e, id, path) ==
    LET np == normalize_path(path)
        call(status, message, wrote) ==
            Call("delete_all", np, status, message, wrote, <<>>)
    IN  IF np \in DOMAIN e
        THEN [endpoints |-> DelPath(e, np), nextId |-> id,
              call |-> call(200, "All endpoints deleted for the given path",
                            TRUE)]
        ELSE [endpoints |-> e, nextId |-> id,
              call |-> call(404, "No endpoints found for the given path",
                            FALSE)]

delete_all_endpoints(path) == Apply(DeleteAllOutcome(endpoints, nextId, path))

\* A deletion that drops the instance at i and every instance after it.
DelAtOnwards(insts, i) == SubSeq(insts, 1, i - 1)

\* del instances[i]
DelAt(insts, i) == SubSeq(insts, 1, i - 1) \o SubSeq(insts, i + 1, Len(insts))

\* A delete_endpoint that answers 200 for a stored id without saving.
DeleteOutcomeUnsaved(e, id, path, endpoint_id) ==
    LET np == normalize_path(path)
        i == FindId(InstancesOf(e, np), 1, endpoint_id)
    IN  [endpoints |-> e, nextId |-> id,
         call |-> IF i = 0
                  THEN Call("delete", np, 404, "Endpoint not found", FALSE,
                            <<>>)
                  ELSE Call("delete", np, 200,
                            "Endpoint deleted successfully", FALSE, <<>>)]

\* What one call of delete_endpoint does to a registry e.
DeleteOutcome(e, id, path, endpoint_id) ==
    LET np == normalize_path(path)
        insts == InstancesOf(e, np)
        i == FindId(insts, 1, endpoint_id)
        call(status, message, wrote) ==
            Call("delete", np, status, message, wrote, <<>>)
    IN  IF i = 0
        THEN [endpoints |-> e, nextId |-> id,
              call |-> call(404, "Endpoint not found", FALSE)]
        ELSE [endpoints |-> SetInstances(e, np, DelAt(insts, i)),
              nextId |-> id,
              call |-> call(200, "Endpoint deleted successfully", TRUE)]

delete_endpoint(path, endpoint_id) ==
    Apply(DeleteOutcome(endpoints, nextId, path, endpoint_id))

\* ----------------------------------------- handle_dynamic_request_response

\* Python truthiness of a schema value: a missing key (None) and {} are falsy.
Truthy(v) == v # Absent /\ v # EmptyVal

\* `if not request_schema or not response_schema: continue`
HasSchemas(inst) == Truthy(inst.request_schema) /\ Truthy(inst.response_schema)

\* generate_dynamic_value(schema, kind): what the generator returns for the
\* k-th instance of one call of the handler, kind 1 for the request and 2
\* for the response.
generate_dynamic_value(gen, k, kind) == gen[k][kind]

\* A loop that appends each new instance twice.
RECURSIVE HandleLoopTwice(_, _, _, _, _)
HandleLoopTwice(insts, i, k, endpoint_id, gen) ==
    IF i > Len(insts) THEN insts
    ELSE IF HasSchemas(insts[i])
    THEN LET new_instance ==
                GeneratedInstance(endpoint_id,
                    generate_dynamic_value(gen, k + 1, 1),
                    generate_dynamic_value(gen, k + 1, 2))
         IN  HandleLoopTwice(Append(Append(insts, new_instance), new_instance),
                             i + 1, k + 1, endpoint_id, gen)
    ELSE HandleLoopTwice(insts, i + 1, k, endpoint_id, gen)

\* The loop `for instance in instances`, from index i on, with k instances
\* generated so far.  The loop appends to the list it iterates, so it also
\* visits the instances it appended.
RECURSIVE HandleLoop(_, _, _, _, _)
HandleLoop(insts, i, k, endpoint_id, gen) ==
    IF i > Len(insts) THEN insts
    ELSE IF HasSchemas(insts[i])
    THEN HandleLoop(
            Append(insts,
                GeneratedInstance(endpoint_id,
                    generate_dynamic_value(gen, k + 1, 1),
                    generate_dynamic_value(gen, k + 1, 2))),
            i + 1, k + 1, endpoint_id, gen)
    ELSE HandleLoop(insts, i + 1, k, endpoint_id, gen)

\* generated_data: one entry per appended instance.
GeneratedData(before, after) ==
    [j \in 1..(Len(after) - Len(before)) |->
        [id |-> after[Len(before) + j].id,
         request |-> after[Len(before) + j].generated_request,
         response |-> after[Len(before) + j].generated_response]]

\* The number of instances of a list that carry both schemas.
NumSchemas(insts) == Cardinality({i \in 1..Len(insts) : HasSchemas(insts[i])})

\* handle_dynamic_request_response: gen is what the generator returns in this
\* call; raises says that the loop body raised (json and
\* generate_dynamic_value are names the handler takes from the module it is
\* placed in), which the handler's except branch answers with 500.
HandleOutcome(e, id, path, gen, raises) ==
    LET np == normalize_path(path)
        insts == InstancesOf(e, np)
        after == HandleLoop(insts, 1, 0, id, gen)
        out(status, message) ==
            [endpoints |-> e, nextId |-> id,
             call |-> Call("handle", np, status, message, FALSE, <<>>)]
    IN  IF np \notin DOMAIN e
        THEN out(404, "No endpoints found for the given path")
        ELSE IF insts = <<>>
        THEN out(404, "No schema instances found for this path")
        ELSE IF NumSchemas(insts) = 0
        THEN out(400, "No data could be generated")
        ELSE IF raises
        THEN out(500, "Exception")
        ELSE [endpoints |-> SetInstances(e, np, after),
              nextId |-> id + 1,
              call |-> Call("handle", np, 200, "pairs generated", TRUE,
                            GeneratedData(insts, after))]

handle_dynamic_request_response(path, gen, raises) ==
    Apply(HandleOutcome(endpoints, nextId, path, gen, raises))

\* ------------------------------------------------------------ specification

\* Identifiers a client can name: those handed out so far.
KnownIds == 1..(nextId - 1)

\* Every identifier uuid.uuid4() hands out in one behaviour.
AllIds == 1..MaxCalls

\* The generator's results in one call: a request and a response value for
\* each instance that carries both schemas.
GenChoicesOn(e, path) ==
    [1..NumSchemas(InstancesOf(e, normalize_path(path))) -> GenVals \X GenVals]

GenChoices(path) == GenChoicesOn(endpoints, path)

\* One more call, while the behaviour may still grow.
Step == calls < MaxCalls /\ calls' = calls + 1

Register == /\ Step
            /\ UNCHANGED <<aiEndpoints, concVars, restVars>>
            /\ \E path \in RawPaths, data \in RegisterInputs :
                register_endpoint(path, data)
GetAll == /\ Step
          /\ UNCHANGED <<aiEndpoints, concVars, restVars>>
          /\ \E path \in RawPaths : get_all_endpoints(path)
Get == /\ Step
       /\ UNCHANGED <<aiEndpoints, concVars, restVars>>
       /\ \E path \in RawPaths, id \in KnownIds : get_endpoint(path, id)
Update == /\ Step
          /\ UNCHANGED <<aiEndpoints, concVars, restVars>>
          /\ \E path \in RawPaths, id \in KnownIds, data \in Patches :
                /\ data.id < nextId
                /\ update_endpoint(path, id, data)
DeleteAll == /\ Step
             /\ UNCHANGED <<aiEndpoints, concVars, restVars>>
             /\ \E path \in RawPaths : delete_all_endpoints(path)
Delete == /\ Step
          /\ UNCHANGED <<aiEndpoints, concVars, restVars>>
          /\ \E path \in RawPaths, id \in KnownIds : delete_endpoint(path, id)
Handle == /\ Step
          /\ UNCHANGED <<aiEndpoints, concVars, restVars>>
          /\ \E path \in RawPaths, raises \in BOOLEAN :
                \E gen \in GenChoices(path) :
                    handle_dynamic_request_response(path, gen, raises)

Next ==
    \/ Register
    \/ GetAll
    \/ Get
    \/ Update
    \/ DeleteAll
    \/ Delete
    \/ Handle

Spec == Init /\ [][Next]_vars

\* The same server, watched over shorter behaviours.
CrudNext == calls < MaxCrudCalls /\ Next

SpecCrud == Init /\ [][CrudNext]_vars

\* ------------------------------------------- registrations by method
\* register_endpoint of generic.py called with bodies that name two
\* different methods.

\* Registration bodies that name a method.
MethodRegisterInputs ==
    [method : {"post", "get"}, request : Vals, response : Vals]

RegisterMethod ==
    /\ calls < MaxCrudCalls
    /\ Step
    /\ UNCHANGED <<aiEndpoints, concVars, restVars>>
    /\ \E path \in RawPaths, data \in MethodRegisterInputs :
            register_endpoint(path, data)

DeleteStored == calls < MaxCrudCalls /\ Delete

MethodNext ==
    \/ RegisterMethod
    \/ DeleteStored

SpecMethod == Init /\ [][MethodNext]_vars

\* ------------------------------------------------- deleted instances
\* The handlers of generic.py, with a record of every (path, id) pair whose
\* instance a delete call has removed.

\* The ids of the instances stored under a normalized path.
IdsUnder(e, np) ==
    {InstancesOf(e, np)[i].id : i \in 1..Len(InstancesOf(e, np))}

\* A call that deletes nothing.
Kept(out) ==
    /\ Apply(out)
    /\ UNCHANGED <<aiEndpoints, concVars, pathVars, valVars, entVars,
                   histVars>>

\* A call that has deleted the instances `gone` when it answers 200.
Gone(out, gone) ==
    /\ Apply(out)
    /\ deleted' = IF out.call.status = 200 THEN deleted \cup gone
                  ELSE deleted
    /\ UNCHANGED <<aiEndpoints, concVars, pathVars, valVars, entVars>>

HistRegister ==
    /\ Step
    /\ \E path \in RawPaths, data \in RegisterInputs :
            Kept(RegisterOutcome(endpoints, nextId, path, data))

HistUpdate ==
    /\ Step
    /\ \E path \in RawPaths, id \in KnownIds, data \in Patches :
            /\ data.id < nextId
            /\ Kept(UpdateOutcome(endpoints, nextId, path, id, data))

HistDeleteAll ==
    /\ Step
    /\ \E path \in RawPaths :
            Gone(DeleteAllOutcome(endpoints, nextId, path),
                 {<<normalize_path(path), k>> :
                    k \in IdsUnder(endpoints, normalize_path(path))})

HistDelete ==
    /\ Step
    /\ \E path \in RawPaths, id \in KnownIds :
            Gone(DeleteOutcome(endpoints, nextId, path, id),
                 {<<normalize_path(path), id>>})

HistNext ==
    \/ HistRegister
    \/ HistUpdate
    \/ HistDeleteAll
    \/ HistDelete

SpecHist == Init /\ [][HistNext]_vars

\* ------------------------------------------------------ write_config raises
\* open(CONFIG_FILE, "w") or yaml.dump may raise (no permission, disk full).

\* A call whose failed write_config is run again, the second time with
\* success.
WriteFailsRetried(e, out, caught, kept) ==
    [out EXCEPT !.call.writes = 2]

\* What a call leaves when its write_config raises.  The file holds what it
\* held when open() raised (kept) and is empty when open() had truncated it
\* before yaml.dump raised; an empty file reads as {"endpoints": {}}.
\* register_endpoint and update_endpoint catch the exception and answer 500
\* with its text (caught); delete_all_endpoints and delete_endpoint have no
\* try block, the exception leaves the handler and Flask answers 500.
WriteFails(e, out, caught, kept) ==
    IF ~out.call.wrote
    THEN out
    ELSE [endpoints |-> IF kept THEN e ELSE EmptyEndpoints,
          nextId |-> out.nextId,
          call |-> [out.call EXCEPT
                        !.status = 500,
                        !.message = IF caught THEN "write_config raised"
                                    ELSE "Internal Server Error"]]

RegisterFails ==
    /\ calls < MaxCrudCalls
    /\ Step
    /\ UNCHANGED <<aiEndpoints, concVars, restVars>>
    /\ \E path \in RawPaths, data \in RegisterInputs, kept \in BOOLEAN :
        LET out == RegisterOutcome(endpoints, nextId, path, data)
        IN  /\ out.call.wrote
            /\ Apply(WriteFails(endpoints, out, TRUE, kept))
UpdateFails ==
    /\ calls < MaxCrudCalls
    /\ Step
    /\ UNCHANGED <<aiEndpoints, concVars, restVars>>
    /\ \E path \in RawPaths, id \in KnownIds, data \in Patches,
          kept \in BOOLEAN :
        LET out == UpdateOutcome(endpoints, nextId, path, id, data)
        IN  /\ data.id < nextId
            /\ out.call.wrote
            /\ Apply(WriteFails(endpoints, out, TRUE, kept))
DeleteAllFails ==
    /\ calls < MaxCrudCalls
    /\ Step
    /\ UNCHANGED <<aiEndpoints, concVars, restVars>>
    /\ \E path \in RawPaths, kept \in BOOLEAN :
        LET out == DeleteAllOutcome(endpoints, nextId, path)
        IN  /\ out.call.wrote
            /\ Apply(WriteFails(endpoints, out, FALSE, kept))
DeleteFails ==
    /\ calls < MaxCrudCalls
    /\ Step
    /\ UNCHANGED <<aiEndpoints, concVars, restVars>>
    /\ \E path \in RawPaths, id \in KnownIds, kept \in BOOLEAN :
        LET out == DeleteOutcome(endpoints, nextId, path, id)
        IN  /\ out.call.wrote
            /\ Apply(WriteFails(endpoints, out, FALSE, kept))

\* The server when writes to config.yaml may fail.
FailNext ==
    \/ CrudNext
    \/ RegisterFails
    \/ UpdateFails
    \/ DeleteAllFails
    \/ DeleteFails

SpecFail == Init /\ [][FailNext]_vars

\* --------------------------------------------------- spellings of a path

\* normalize_path(path) of both spellings.
Normalize ==
    /\ normalized.once = NotYet
    /\ normalized' = [normalized EXCEPT
                        !.once = <<normalize_path(raw[1]),
                                   normalize_path(raw[2])>>]
    /\ UNCHANGED <<seqVars, concVars, raw, valVars, entVars, histVars>>

\* normalize_path applied to its own results.
Renormalize ==
    /\ normalized.once # NotYet
    /\ normalized.twice = NotYet
    /\ normalized' = [normalized EXCEPT
                        !.twice = <<normalize_path(normalized.once[1]),
                                    normalize_path(normalized.once[2])>>]
    /\ UNCHANGED <<seqVars, concVars, raw, valVars, entVars, histVars>>

\* The body and the patch of the calls made with the spellings.
PathBody == [method |-> Absent, request |-> "v1", response |-> "v1"]
PathPatch == Patch(0, Absent, "v2", Absent, Absent)

\* A register call that spells the path the first way, or a list, update or
\* delete call that spells it the second way.
PathCall ==
    /\ calls < MaxPathCalls
    /\ Step
    /\ UNCHANGED <<aiEndpoints, concVars, pathVars, valVars, entVars, histVars>>
    /\ \/ register_endpoint(raw[1], PathBody)
       \/ get_all_endpoints(raw[2])
       \/ delete_all_endpoints(raw[2])
       \/ \E id \in KnownIds :
            \/ update_endpoint(raw[2], id, PathPatch)
            \/ delete_endpoint(raw[2], id)

PathNext ==
    \/ Normalize
    \/ Renormalize
    \/ PathCall

InitPath ==
    SeqInit /\ ConcIdle /\ PathInit /\ ValIdle /\ EntIdle /\ HistIdle

SpecPath == InitPath /\ [][PathNext]_vars

\* ------------------------------------------------------ request validation
\* SchemaValidator.validate_schema of schema_validator.py and
\* OpenAPIFlask.validate_request_body of app.py.

\* The property names of the schemas and bodies.
Fields == {"a", "b"}

\* The order in which data.items() yields the keys of a body.
FieldOrder == <<"a", "b">>

\* A JSON value as request.get_json() returns it: its Python type and its
\* text.  True, 1 and 1.0 compare equal in Python; the text of numbers is
\* their numeric value.
Value(t, v) == [t |-> t, v |-> v]

IsoString == "2024-01-01T00:00:00Z"

Values ==
    {Value("str", "x"), Value("str", IsoString), Value("int", "1"),
     Value("float", "1.5"), Value("bool", "1"), Value("list", "[]"),
     Value("dict", "{}"), Value("NoneType", "null")}

\* The values of the second property of a body.
FewValues == {Value("str", "x"), Value("int", "1"), Value("NoneType", "null")}

\* type_map.get(expected_type, object): the classes isinstance tests for.
type_map(expected_type) ==
    CASE expected_type = "string" -> {"str"}
      [] expected_type = "integer" -> {"int"}
      [] expected_type = "number" -> {"int", "float"}
      [] expected_type = "boolean" -> {"bool"}
      [] expected_type = "array" -> {"list"}
      [] expected_type = "object" -> {"dict"}
      [] OTHER -> {"object"}

\* isinstance(value, classes): bool is a subclass of int, and every class is
\* a subclass of object.
IsInstance(value, classes) ==
    \/ "object" \in classes
    \/ value.t \in classes
    \/ value.t = "bool" /\ "int" \in classes

\* SchemaValidator.validate_type
validate_type(value, expected_type) ==
    IsInstance(value, type_map(expected_type))

\* A property schema: its "type" (Absent: no such key), its "enum" list when
\* it has one, and its "format".
FieldSchema(type, has_enum, enum, format) ==
    [type |-> type, has_enum |-> has_enum, enum |-> enum, format |-> format]

\* The declared types: the six of type_map, one it does not know, and none.
DeclaredTypes ==
    {"string", "integer", "number", "boolean", "array", "object", "null",
     Absent}

EnumList == {Value("int", "1"), Value("str", "x")}

\* The schemas of the first property: a type alone, or a type with an enum
\* or a format next to it.
FieldSchemas ==
    {FieldSchema(t, FALSE, {}, Absent) : t \in DeclaredTypes}
    \cup {FieldSchema(t, TRUE, EnumList, Absent) : t \in {"integer", Absent}}
    \cup {FieldSchema(t, FALSE, {}, "date-time") : t \in {"string", Absent}}

\* The schemas of the second property: a type alone.
FewFieldSchemas ==
    {FieldSchema(t, FALSE, {}, Absent) : t \in {"string", "integer", "number"}}

\* Every dict with keys among Fields, the value of key f drawn from Of[f].
Dicts(Of) ==
    UNION {{d \in [S -> UNION {Of[f] : f \in Fields}] :
                \A f \in S : d[f] \in Of[f]} : S \in SUBSET Fields}

\* The "required" lists: the properties in any order, without repetition.
RequiredLists == {<<>>, <<"a">>, <<"b">>, <<"a", "b">>, <<"b", "a">>}

\* value == other in Python: numbers compare by their numeric value.
PyEq(value, other) ==
    /\ value.v = other.v
    /\ \/ value.t = other.t
       \/ {value.t, other.t} \subseteq {"int", "float", "bool"}

\* datetime.fromisoformat(value.replace('Z', '+00:00')) returns: the value
\* is a string (others have no replace) in ISO format.
ParsesAsDateTime(value) == value.t = "str" /\ value.v = IsoString

Error(kind, field) == [kind |-> kind, field |-> field]

\* The errors validate_schema appends for one key of the body.
FieldErrors(field, value, properties) ==
    IF field \notin DOMAIN properties THEN <<>>
    ELSE LET field_schema == properties[field]
             field_type == field_schema.type
         IN  (IF field_type # Absent /\ ~validate_type(value, field_type)
              THEN <<Error("type", field)>> ELSE <<>>)
             \o (IF /\ field_schema.has_enum
                    /\ \A other \in field_schema.enum : ~PyEq(value, other)
                 THEN <<Error("enum", field)>> ELSE <<>>)
             \o (IF /\ field_schema.format = "date-time"
                    /\ ~ParsesAsDateTime(value)
                 THEN <<Error("format", field)>> ELSE <<>>)

\* for field, value in data.items(), from the i-th key on.
RECURSIVE PropertyErrors(_, _, _)
PropertyErrors(data, properties, i) ==
    IF i > Len(FieldOrder) THEN <<>>
    ELSE (IF FieldOrder[i] \in DOMAIN data
          THEN FieldErrors(FieldOrder[i], data[FieldOrder[i]], properties)
          ELSE <<>>)
         \o PropertyErrors(data, properties, i + 1)

\* for field in required_fields: if field not in data, from the i-th on.
RECURSIVE MissingErrors(_, _, _)
MissingErrors(data, required_fields, i) ==
    IF i > Len(required_fields) THEN <<>>
    ELSE (IF required_fields[i] \notin DOMAIN data
          THEN <<Error("missing", required_fields[i])>> ELSE <<>>)
         \o MissingErrors(data, required_fields, i + 1)

\* SchemaValidator.validate_schema(data, schema) of schema_validator.py
validate_schema(data, sch) ==
    MissingErrors(data, sch.required, 1)
    \o PropertyErrors(data, sch.properties, 1)

\* OpenAPIFlask.validate_request_body(data, schema) of app.py: the field of
\* the ValueError it raises, Absent when it returns.
RECURSIVE validate_request_body(_, _, _)
validate_request_body(data, required, i) ==
    IF i > Len(required) THEN Absent
    ELSE IF required[i] \notin DOMAIN data THEN required[i]
    ELSE validate_request_body(data, required, i + 1)

\* A body and a schema arrive at the validators.
ValInit ==
    /\ payload \in Dicts([f \in Fields |->
                            IF f = "a" THEN Values ELSE FewValues])
    /\ schema \in [required : RequiredLists,
                   properties : Dicts([f \in Fields |->
                                        IF f = "a" THEN FieldSchemas
                                        ELSE FewFieldSchemas])]
    /\ errors = NotValidated
    /\ raised = NotRaised

\* handle_create of schema_validator.py validates the body.
ValidateSchema ==
    /\ ~errors.ran
    /\ errors' = [ran |-> TRUE, list |-> validate_schema(payload, schema)]
    /\ UNCHANGED <<seqVars, concVars, pathVars, entVars, histVars, payload, schema,
                   raised>>

\* The route handler of app.py validates the body.
ValidateBody ==
    /\ ~raised.ran
    /\ raised' = [ran |-> TRUE,
                  error |-> validate_request_body(payload, schema.required, 1)]
    /\ UNCHANGED <<seqVars, concVars, pathVars, entVars, histVars, payload, schema,
                   errors>>

ValNext ==
    \/ ValidateSchema
    \/ ValidateBody

InitVal ==
    SeqInit /\ ConcIdle /\ PathIdle /\ ValInit /\ EntIdle /\ HistIdle

SpecVal == InitVal /\ [][ValNext]_vars

\* ---------------------------------------------------------- entity servers
\* OpenAPIFlask with its GenericAPIHandler, in app.py, schema_validator.py
\* and utils.py: three servers that store entities of the types their
\* OpenAPI document names.  Timestamps are left out.

\* The entity type of the route, and the request schema of its operations.
EntityType == "pets"

EntSchema ==
    [required |-> <<"a">>,
     properties |-> [f \in Fields |->
                        IF f = "a"
                        THEN FieldSchema("string", FALSE, {}, Absent)
                        ELSE FieldSchema("integer", FALSE, {}, Absent)]]

\* Request bodies: the value of their "id" key (0: no such key) and their
\* other keys.
EntBodies ==
    [id : {0, 2},
     fields : {d \in Dicts([f \in Fields |->
                              IF f = "a"
                              THEN {Value("str", "x"), Value("int", "1")}
                              ELSE {Value("int", "1"), Value("bool", "1")}]) :
                    d # EmptyDict => "a" \in DOMAIN d \/ d["b"].t = "int"}]

\* The ids a client may name.
EntIds == 1..MaxEntCalls

\* The instance has the JSON type the schema declares: for jsonschema a
\* boolean is neither an integer nor a number.
IsJsonType(value, type) ==
    CASE type = "string" -> value.t = "str"
      [] type = "integer" -> value.t = "int"
      [] type = "number" -> value.t \in {"int", "float"}
      [] type = "boolean" -> value.t = "bool"
      [] type = "array" -> value.t = "list"
      [] type = "object" -> value.t = "dict"
      [] OTHER -> TRUE

\* jsonschema.validate(instance=data, schema=...) of utils.py returns (it
\* raises ValidationError otherwise): the keywords required and
\* properties/type.
JsonSchemaValid(data, sch) ==
    /\ \A i \in 1..Len(sch.required) : sch.required[i] \in DOMAIN data
    /\ \A f \in DOMAIN data \cap DOMAIN sch.properties :
        \/ sch.properties[f].type = Absent
        \/ IsJsonType(data[f], sch.properties[f].type)

\* The answer of an entity server.
Reply(op, status) == Call(op, <<>>, status, "", FALSE, <<>>)

\* dict.update / {**entity, **data} on the keys other than "id".
MergeFields(old, new) ==
    [f \in DOMAIN old \cup DOMAIN new |->
        IF f \in DOMAIN new THEN new[f] ELSE old[f]]

\* GenericAPIHandler.get_or_create_store (app.py, schema_validator.py)
get_or_create_store(h, t) ==
    IF t \in DOMAIN h.store THEN h
    ELSE [h EXCEPT !.store = (t :> EmptyDict) @@ @,
                   !.id_counters = (t :> 1) @@ @]

\* A create that takes the id from the number of stored entities.
create_by_length(h, t, data) ==
    LET g == get_or_create_store(h, t)
        entity_id == Cardinality(DOMAIN g.store[t]) + 1
        entity == [id |-> entity_id, fields |-> data.fields]
    IN  [h |-> [g EXCEPT !.store[t] = (entity_id :> entity) @@ @,
                         !.id_counters[t] = @ + 1],
         call |-> Reply("create", 201)]

\* GenericAPIHandler.create (app.py, schema_validator.py)
create(h, t, data) ==
    LET g == get_or_create_store(h, t)
        entity_id == g.id_counters[t]
        entity == [id |-> entity_id, fields |-> data.fields]
    IN  [h |-> [g EXCEPT !.store[t] = (entity_id :> entity) @@ @,
                         !.id_counters[t] = @ + 1],
         call |-> Reply("create", 201)]

\* GenericAPIHandler.update of app.py: the body replaces the entity.
app_update(h, t, entity_id, data) ==
    LET g == get_or_create_store(h, t)
    IN  IF entity_id \notin DOMAIN g.store[t]
        THEN [h |-> g, call |-> Reply("update", 404)]
        ELSE [h |-> [g EXCEPT !.store[t][entity_id] =
                        [id |-> entity_id, fields |-> data.fields]],
              call |-> Reply("update", 200)]

\* GenericAPIHandler.update of schema_validator.py: existing_data.update(data)
sv_update(h, t, entity_id, data) ==
    LET g == get_or_create_store(h, t)
    IN  IF entity_id \notin DOMAIN g.store[t]
        THEN [h |-> g, call |-> Reply("update", 404)]
        ELSE [h |-> [g EXCEPT !.store[t][entity_id] =
                        [id |-> IF data.id = 0 THEN @.id ELSE data.id,
                         fields |-> MergeFields(@.fields, data.fields)]],
              call |-> Reply("update", 200)]

\* A delete that answers 200 and leaves the entity in the store.
delete_kept(h, t, entity_id) ==
    LET g == get_or_create_store(h, t)
    IN  IF entity_id \notin DOMAIN g.store[t]
        THEN [h |-> g, call |-> Reply("delete", 404)]
        ELSE [h |-> g, call |-> Reply("delete", 200)]

\* GenericAPIHandler.delete (app.py, schema_validator.py): store.pop
delete(h, t, entity_id) ==
    LET g == get_or_create_store(h, t)
    IN  IF entity_id \notin DOMAIN g.store[t]
        THEN [h |-> g, call |-> Reply("delete", 404)]
        ELSE [h |-> [g EXCEPT !.store[t] =
                        [i \in DOMAIN @ \ {entity_id} |-> @[i]]],
              call |-> Reply("delete", 200)]

\* GenericAPIHandler.create_entity (utils.py): the body is validated first;
\* raised tells that validate_schema raised ValidationError.
create_entity(h, t, data) ==
    IF ~JsonSchemaValid(data.fields, EntSchema)
    THEN [h |-> h, raised |-> TRUE]
    ELSE LET entities == IF t \in DOMAIN h.storage THEN h.storage[t]
                         ELSE <<>>
             entity_id == Len(entities) + 1
             entity == [id |-> entity_id, fields |-> data.fields]
         IN  [h |-> [h EXCEPT !.storage =
                        (t :> Append(entities, entity)) @@ @],
              raised |-> FALSE]

\* The index of the first entity with this id, 0 if there is none.
EntityIndex(entities, entity_id) ==
    IF \E i \in 1..Len(entities) : entities[i].id = entity_id
    THEN CHOOSE i \in 1..Len(entities) :
            /\ entities[i].id = entity_id
            /\ \A j \in 1..(i - 1) : entities[j].id # entity_id
    ELSE 0

\* GenericAPIHandler.update_entity (utils.py): {**entity, **data, 'id': id};
\* found tells that an entity was returned.
update_entity(h, t, entity_id, data) ==
    IF ~JsonSchemaValid(data.fields, EntSchema)
    THEN [h |-> h, raised |-> TRUE, found |-> FALSE]
    ELSE LET entities == IF t \in DOMAIN h.storage THEN h.storage[t]
                         ELSE <<>>
             i == EntityIndex(entities, entity_id)
         IN  IF i = 0
             THEN [h |-> h, raised |-> FALSE, found |-> FALSE]
             ELSE [h |-> [h EXCEPT !.storage[t][i] =
                            [id |-> entity_id,
                             fields |-> MergeFields(@.fields, data.fields)]],
                   raised |-> FALSE, found |-> TRUE]

\* GenericAPIHandler.delete_entity (utils.py)
delete_entity(h, t, entity_id) ==
    LET entities == IF t \in DOMAIN h.storage THEN h.storage[t] ELSE <<>>
        i == EntityIndex(entities, entity_id)
    IN  IF i = 0
        THEN [h |-> h, found |-> FALSE]
        ELSE [h |-> [h EXCEPT !.storage[t] = DelAt(@, i)], found |-> TRUE]

\* The methods a client sends: POST to the collection, PUT and DELETE to
\* one entity.
Methods == {"post", "put", "delete"}

OpOf(method) ==
    CASE method = "post" -> "create"
      [] method = "put" -> "update"
      [] OTHER -> "delete"

\* register_route.handler of app.py, for a JSON request.
handler(h, method, entity_id, data) ==
    IF method \in {"post", "put"}
    THEN IF validate_request_body(data.fields, EntSchema.required, 1) # Absent
         THEN [h |-> h, call |-> Reply(OpOf(method), 400)]
         ELSE IF method = "post"
              THEN create(h, EntityType, data)
              ELSE app_update(h, EntityType, entity_id, data)
    ELSE delete(h, EntityType, entity_id)

\* A route handler that stores the body before it looks at the schema.
route_handler_late(h, method, entity_id, data) ==
    LET out == CASE method = "post" -> create(h, EntityType, data)
                 [] method = "put" ->
                        sv_update(h, EntityType, entity_id, data)
                 [] OTHER -> delete(h, EntityType, entity_id)
    IN  IF method \in {"post", "put"}
           /\ validate_schema(data.fields, EntSchema) # <<>>
        THEN [h |-> out.h, call |-> Reply(OpOf(method), 400)]
        ELSE out

\* register_route.route_handler of schema_validator.py with handle_create,
\* handle_update and handle_delete.
route_handler(h, method, entity_id, data) ==
    IF method \in {"post", "put"}
    THEN IF validate_schema(data.fields, EntSchema) # <<>>
         THEN [h |-> h, call |-> Reply(OpOf(method), 400)]
         ELSE IF method = "post"
              THEN create(h, EntityType, data)
              ELSE sv_update(h, EntityType, entity_id, data)
    ELSE delete(h, EntityType, entity_id)

\* `not data`: the body has no key at all.
IsEmptyBody(data) == data.id = 0 /\ data.fields = EmptyDict

\* The closures of _create_endpoint_handler of utils.py, for a JSON request.
endpoint_handler(h, method, entity_id, data) ==
    CASE method = "post" ->
            IF IsEmptyBody(data)
            THEN [h |-> h, call |-> Reply("create", 400)]
            ELSE LET out == create_entity(h, EntityType, data)
                 IN  [h |-> out.h,
                      call |-> Reply("create",
                                     IF out.raised THEN 400 ELSE 201)]
      [] method = "put" ->
            IF IsEmptyBody(data)
            THEN [h |-> h, call |-> Reply("update", 400)]
            ELSE LET out == update_entity(h, EntityType, entity_id, data)
                 IN  [h |-> out.h,
                      call |-> Reply("update",
                                     IF out.raised THEN 400
                                     ELSE IF out.found THEN 200 ELSE 404)]
      [] OTHER ->
            LET out == delete_entity(h, EntityType, entity_id)
            IN  [h |-> out.h,
                 call |-> Reply("delete", IF out.found THEN 204 ELSE 404)]

\* The handler object of the running server.
CurrentHandler ==
    [store |-> store, id_counters |-> id_counters, storage |-> storage]

Impls == {"app", "schema_validator", "utils"}

\* What the server `server` answers and keeps.
Serve(server, h, method, entity_id, data) ==
    CASE server = "app" -> handler(h, method, entity_id, data)
      [] server = "schema_validator" ->
            route_handler(h, method, entity_id, data)
      [] OTHER -> endpoint_handler(h, method, entity_id, data)

\* One request to the running server.
Request(method) ==
    \E entity_id \in EntIds, data \in EntBodies :
        LET out == Serve(impl, CurrentHandler, method, entity_id, data)
        IN  /\ store' = out.h.store
            /\ id_counters' = out.h.id_counters
            /\ storage' = out.h.storage
            /\ last' = out.call

EntStep ==
    /\ calls < MaxEntCalls
    /\ calls' = calls + 1
    /\ UNCHANGED <<endpoints, nextId, aiEndpoints, impl, concVars, pathVars,
                   valVars, histVars>>

PostEntity == EntStep /\ Request("post")

PutEntity == EntStep /\ Request("put")

DeleteEntity == EntStep /\ Request("delete")

EntNext ==
    \/ PostEntity
    \/ PutEntity
    \/ DeleteEntity

EntInit ==
    /\ impl \in Impls
    /\ store = NewHandler.store
    /\ id_counters = NewHandler.id_counters
    /\ storage = NewHandler.storage

InitEnt ==
    SeqInit /\ ConcIdle /\ PathIdle /\ ValIdle /\ EntInit /\ HistIdle

SpecEnt == InitEnt /\ [][EntNext]_vars

\* --------------------------------------------------- concurrent create
\* Two requests run GenericAPIHandler.create (app.py, schema_validator.py)
\* on the threads of the server, which takes no lock: each reads the
\* counter, stores its entity under the id it read, and increments the
\* counter.

\* Bodies that both servers accept.
CreateBodies ==
    {d \in EntBodies : /\ d.id = 0
                       /\ "a" \in DOMAIN d.fields
                       /\ d.fields["a"].t = "str"
                       /\ "b" \in DOMAIN d.fields => d.fields["b"].t = "int"}

\* A thread about to run create on its body.
NewCreate(data) == [pc |-> "read", data |-> data, entity_id |-> 0]

\* store = self.get_or_create_store(entity_type)
\* entity_id = self.id_counters[entity_type]
CreateRead ==
    /\ \E p \in Procs :
        /\ procs[p].pc = "read"
        /\ LET g == get_or_create_store(CurrentHandler, EntityType)
           IN  /\ store' = g.store
               /\ id_counters' = g.id_counters
               /\ procs' = [procs EXCEPT
                               ![p].entity_id = g.id_counters[EntityType],
                               ![p].pc = "store"]
    /\ UNCHANGED <<seqVars, file, reader, complete, impl, storage, pathVars,
                   valVars, histVars>>

\* data['id'] = entity_id; store[entity_id] = data
CreateStore ==
    /\ \E p \in Procs :
        /\ procs[p].pc = "store"
        /\ store' = [store EXCEPT ![EntityType] =
                        (procs[p].entity_id :>
                            [id |-> procs[p].entity_id,
                             fields |-> procs[p].data.fields]) @@ @]
        /\ procs' = [procs EXCEPT ![p].pc = "increment"]
    /\ UNCHANGED <<seqVars, file, reader, complete, impl, id_counters,
                   storage, pathVars, valVars, histVars>>

\* self.id_counters[entity_type] += 1, taken as one step.
CreateIncrement ==
    /\ \E p \in Procs :
        /\ procs[p].pc = "increment"
        /\ id_counters' = [id_counters EXCEPT ![EntityType] = @ + 1]
        /\ procs' = [procs EXCEPT ![p].pc = "done"]
    /\ UNCHANGED <<seqVars, file, reader, complete, impl, store, storage,
                   pathVars, valVars, histVars>>

CreateNext ==
    \/ CreateRead
    \/ CreateStore
    \/ CreateIncrement

\* Two create calls arrive together at a server that is new or has served
\* one create.
CreateInit ==
    /\ impl \in {"app", "schema_validator"}
    /\ \E h \in {NewHandler} \cup
                 {create(NewHandler, EntityType, d).h : d \in CreateBodies} :
        /\ store = h.store
        /\ id_counters = h.id_counters
        /\ storage = h.storage
    /\ file = <<>>
    /\ procs \in [Procs -> {NewCreate(d) : d \in CreateBodies}]
    /\ reader = [done |-> TRUE, seen |-> <<>>]
    /\ complete = {<<>>}

InitCreate ==
    SeqInit /\ CreateInit /\ PathIdle /\ ValIdle /\ HistIdle

SpecCreate == InitCreate /\ [][CreateNext]_vars

\* ------------------------------------------------------------- test.py
\* register_endpoint, get_endpoint and delete_endpoint of test.py on the
\* registry of config.yaml.

\* instance_id = None: the identifier of the first instance of a path. The
\* identifiers of a URL are strings, here 1 and up, and None equals none.
NoneId == 0

\* What one call of register_endpoint of test.py does to a registry e when
\* uuid4() returns id.
TestRegisterOutcome(e, id, path, data) ==
    LET np == normalize_path(path)
        insts == InstancesOf(e, np)
        first == Len(insts) = 0
        instance_id == IF first THEN NoneId ELSE id
    IN  IF data.request = Absent \/ data.response = Absent
        THEN [endpoints |-> e, nextId |-> id,
              call |-> Call("register", np, 400,
                            "Missing request or response schema", FALSE,
                            <<>>)]
        ELSE [endpoints |->
                SetInstances(e, np,
                    Append(insts,
                        Instance(instance_id, MethodOf(data), Absent, Absent,
                                 data.request, data.response, Absent,
                                 Absent))),
              nextId |-> IF first THEN id ELSE id + 1,
              call |-> Call("register", np, 200,
                            "New endpoint registered successfully", TRUE,
                            <<>>)]

TestRegister ==
    /\ Step
    /\ UNCHANGED <<aiEndpoints, concVars, restVars>>
    /\ \E path \in RawPaths, data \in RegisterInputs :
        Apply(TestRegisterOutcome(endpoints, nextId, path, data))

\* get_endpoint of test.py: the loop of generic.py.
TestGet ==
    /\ Step
    /\ UNCHANGED <<aiEndpoints, concVars, restVars>>
    /\ \E path \in RawPaths, endpoint_id \in AllIds :
        Apply(GetOutcome(endpoints, nextId, path, endpoint_id))

\* delete_endpoint of test.py: the loop of generic.py.
TestDelete ==
    /\ Step
    /\ UNCHANGED <<aiEndpoints, concVars, restVars>>
    /\ \E path \in RawPaths, endpoint_id \in AllIds :
        Apply(DeleteOutcome(endpoints, nextId, path, endpoint_id))

TestNext ==
    \/ TestRegister
    \/ TestGet
    \/ TestDelete

SpecTest == Init /\ [][TestNext]_vars

\* --------------------------------------------------- path parameters
\* The route handlers of app.py and schema_validator.py take the value of a
\* template's parameter from kwargs, under the name the template gives it.

\* The names a template may give its parameter.
ParamNames == {"id", "petId", "userId"}

\* kwargs of a route with one parameter.
Kwargs(name, value) == [name |-> name, value |-> value]

\* list(store.values()): the keys were inserted in the order of the counter.
RECURSIVE StoreValues(_, _)
StoreValues(s, keys) ==
    IF keys = {} THEN <<>>
    ELSE LET k == CHOOSE i \in keys : \A j \in keys : i <= j
         IN  <<s[k]>> \o StoreValues(s, keys \ {k})

\* GenericAPIHandler.get_all (app.py, schema_validator.py), no query.
get_all(h, t) ==
    LET g == get_or_create_store(h, t)
    IN  [h |-> g,
         call |-> Call("get_all", <<>>, 200, "", FALSE,
                       StoreValues(g.store[t], DOMAIN g.store[t]))]

\* GenericAPIHandler.get_one (app.py, schema_validator.py)
get_one(h, t, entity_id) ==
    LET g == get_or_create_store(h, t)
    IN  IF entity_id \notin DOMAIN g.store[t]
        THEN [h |-> g, call |-> Reply("get_one", 404)]
        ELSE [h |-> g,
              call |-> Call("get_one", <<>>, 200, "", FALSE,
                            <<g.store[t][entity_id]>>)]

\* kwargs.get('id') or kwargs.get('petId') or kwargs.get('orderId') of
\* app.py is not None.
HasEntityId(kwargs) == kwargs.name \in {"id", "petId", "orderId"}

\* register_route.handler of app.py on a route with a parameter:
\* int(None) raises TypeError, which the handler answers with 400.
handler_kwargs(h, method, kwargs, data) ==
    CASE method = "get" ->
            IF HasEntityId(kwargs)
            THEN get_one(h, EntityType, kwargs.value)
            ELSE get_all(h, EntityType)
      [] method \in {"put", "delete"} /\ ~HasEntityId(kwargs) ->
            [h |-> h, call |-> Reply(OpOf(method), 400)]
      [] OTHER -> handler(h, method, kwargs.value, data)

\* register_route.route_handler of schema_validator.py on a route with a
\* parameter: kwargs['id'] raises KeyError, answered with 500.
route_handler_kwargs(h, method, kwargs, data) ==
    CASE method = "get" ->
            IF kwargs.name = "id"
            THEN get_one(h, EntityType, kwargs.value)
            ELSE get_all(h, EntityType)
      [] method \in {"put", "delete"} /\ kwargs.name # "id" ->
            [h |-> h, call |-> Reply(OpOf(method), 500)]
      [] OTHER -> route_handler(h, method, kwargs.value, data)

ServeKwargs(server, h, method, kwargs, data) ==
    IF server = "app" THEN handler_kwargs(h, method, kwargs, data)
    ELSE route_handler_kwargs(h, method, kwargs, data)

\* One request to a route of the running server.
ParamRequest(method) ==
    \E name \in ParamNames, value \in EntIds, data \in EntBodies :
        LET out == ServeKwargs(impl, CurrentHandler, method,
                               Kwargs(name, value), data)
        IN  /\ store' = out.h.store
            /\ id_counters' = out.h.id_counters
            /\ storage' = out.h.storage
            /\ last' = out.call

ParamPost == EntStep /\ ParamRequest("post")

ParamGet == EntStep /\ ParamRequest("get")

ParamPut == EntStep /\ ParamRequest("put")

ParamDelete == EntStep /\ ParamRequest("delete")

ParamNext ==
    \/ ParamPost
    \/ ParamGet
    \/ ParamPut
    \/ ParamDelete

ParamInit ==
    /\ impl \in {"app", "schema_validator"}
    /\ store = NewHandler.store
    /\ id_counters = NewHandler.id_counters
    /\ storage = NewHandler.storage

InitParam ==
    SeqInit /\ ConcIdle /\ PathIdle /\ ValIdle /\ ParamInit /\ HistIdle

SpecParam == InitParam /\ [][ParamNext]_vars

\* ------------------------------------------------- references (utils.py)
\* SchemaValidator.validate_schema of utils.py hands the schema, with the
\* document's definitions beside it, to jsonschema.validate, which follows
\* a $ref each time validation meets one.

\* The names under components/schemas.
SchemaNames == {"A", "B"}

\* A schema: a $ref to a definition, or a type and a property "a" whose
\* schema is a $ref (Absent: the keyword is not there).
SchemaNodes ==
    [ref : SchemaNames \cup {Absent},
     type : {"string", "object", Absent},
     child : SchemaNames \cup {Absent}]

\* A JSON instance: nest dicts {"a": ...} around a string or an empty dict.
Instances == [nest : 0..MaxNesting, leaf : {"str", "dict"}]

InstanceValue(inst) ==
    Value(IF inst.nest > 0 THEN "dict" ELSE inst.leaf, "")

\* jsonschema's descent: $ref alone when it is there, else type and
\* properties; `frames` counts the nested calls.
RECURSIVE JsonValidate(_, _, _, _)
JsonValidate(defs, node, inst, frames) ==
    IF frames > RecursionLimit THEN "RecursionError"
    ELSE IF node.ref # Absent
    THEN JsonValidate(defs, defs[node.ref], inst, frames + 1)
    ELSE LET typeError == /\ node.type # Absent
                          /\ ~IsJsonType(InstanceValue(inst), node.type)
             below == IF node.child # Absent /\ inst.nest > 0
                      THEN JsonValidate(defs, defs[node.child],
                                        [inst EXCEPT !.nest = @ - 1],
                                        frames + 1)
                      ELSE "valid"
         IN  IF below = "RecursionError" THEN below
             ELSE IF typeError \/ below = "ValidationError"
             THEN "ValidationError"
             ELSE "valid"

\* SchemaValidator.validate_schema of utils.py: Absent when it returns,
\* else the exception that leaves it.
validate_by_name(defs, data, schema_name) ==
    IF schema_name \notin DOMAIN defs THEN "ValueError"
    ELSE LET result == JsonValidate(defs, defs[schema_name], data, 1)
         IN  IF result = "valid" THEN Absent ELSE result

\* The definitions of a document and an instance arrive at the validator.
RefInit ==
    /\ schema \in [SchemaNames -> SchemaNodes]
    /\ payload \in Instances
    /\ errors = NotValidated
    /\ raised = NotRaised

\* create_entity validates the body against the schema named "A".
ValidateByName ==
    /\ ~raised.ran
    /\ raised' = [ran |-> TRUE,
                  error |-> validate_by_name(schema, payload, "A")]
    /\ UNCHANGED <<seqVars, concVars, pathVars, entVars, histVars, payload, schema,
                   errors>>

RefNext == ValidateByName

InitRef ==
    SeqInit /\ ConcIdle /\ PathIdle /\ RefInit /\ EntIdle /\ HistIdle

SpecRef == InitRef /\ [][RefNext]_vars

\* ------------------------------------------------- part_000 (ai powered.py)

\* What generate_dynamic_value of part_000 returns when the model call fails.
GenError == "Could not generate dynamic response"

\* generate_dynamic_value(schema) of part_000: a generated value, or the
\* error dict of its except branch.
AiGenResults == GenVals \cup {GenError}

\* Identifiers uuid.uuid4() may return: at most one per call.
AiIds == 1..MaxCalls

\* Registration bodies of part_000: path, method, request, response.
AiRegisterInputs ==
    [path : RawPaths, method : {Absent, "post"}, request : {"v1"},
     response : Vals \cup {Absent}]

\* config["endpoints"][path] of part_000, a dict from id to endpoint.
AiDictOf(e, path) == IF path \in DOMAIN e THEN e[path] ELSE [i \in {} |-> 0]

\* Every identifier stored in the registry of part_000.
AiUsedIds == UNION {DOMAIN aiEndpoints[p] : p \in DOMAIN aiEndpoints}

\* register_endpoint() of part_000; id is what uuid.uuid4() returns, and
\* the clock datetime.now() reads is the number of calls made before.
ai_register_endpoint(data, id) ==
    LET path == normalize_path(data.path)
        d == AiDictOf(aiEndpoints, path)
        endpoint == [id |-> id, method |-> Upper(data.method),
                     request |-> data.request,
                     response_schema |-> data.response,
                     created_at |-> calls]
    IN  IF data.method = Absent \/ data.request = Absent
           \/ data.response = Absent
        THEN /\ last' = Call("ai_register", path, 400,
                            "Missing required fields", FALSE, <<>>)
             /\ UNCHANGED aiEndpoints
        ELSE /\ aiEndpoints' =
                    [q \in DOMAIN aiEndpoints \cup {path} |->
                        IF q = path
                        THEN [i \in DOMAIN d \cup {id} |->
                                IF i = id THEN endpoint ELSE d[i]]
                        ELSE aiEndpoints[q]]
             /\ last' = Call("ai_register", path, 200,
                            "New endpoint registered successfully", TRUE,
                            <<>>)

\* The first key of a dict read back from config.yaml: yaml.dump writes the
\* keys of a mapping sorted.
FirstKey(d) == CHOOSE i \in DOMAIN d : \A j \in DOMAIN d : i <= j

\* handle_dynamic_request of part_000; generated is what
\* generate_dynamic_value returns.
handle_dynamic_request(path, generated) ==
    LET np == normalize_path(path)
        d == AiDictOf(aiEndpoints, np)
    IN  /\ last' =
            IF np \in DOMAIN aiEndpoints /\ DOMAIN d # {}
            THEN Call("ai_handle", np, 200, "", FALSE,
                    <<[id |-> FirstKey(d), request |-> Absent,
                       response |-> generated]>>)
            ELSE Call("ai_handle", np, 404, "No endpoint found", FALSE, <<>>)
        /\ UNCHANGED aiEndpoints

\* delete_endpoint of part_000.
ai_delete_endpoint(path, endpoint_id) ==
    LET np == normalize_path(path)
        d == AiDictOf(aiEndpoints, np)
        rest == [i \in DOMAIN d \ {endpoint_id} |-> d[i]]
    IN  IF np \in DOMAIN aiEndpoints /\ endpoint_id \in DOMAIN d
        THEN /\ aiEndpoints' =
                    IF DOMAIN rest = {}
                    THEN [q \in DOMAIN aiEndpoints \ {np} |-> aiEndpoints[q]]
                    ELSE [aiEndpoints EXCEPT ![np] = rest]
             /\ last' = Call("ai_delete", np, 200,
                            "Endpoint deleted successfully", TRUE, <<>>)
        ELSE /\ last' = Call("ai_delete", np, 404, "Endpoint not found",
                            FALSE, <<>>)
             /\ UNCHANGED aiEndpoints

AiRegister == /\ Step
              /\ UNCHANGED <<endpoints, nextId, concVars, restVars>>
              /\ \E data \in AiRegisterInputs, id \in AiIds \ AiUsedIds :
                    ai_register_endpoint(data, id)
AiHandle == /\ Step
            /\ UNCHANGED <<endpoints, nextId, concVars, restVars>>
            /\ \E path \in RawPaths, generated \in AiGenResults :
                    handle_dynamic_request(path, generated)
AiDelete == /\ Step
            /\ UNCHANGED <<endpoints, nextId, concVars, restVars>>
            /\ \E path \in RawPaths, id \in AiIds :
                    ai_delete_endpoint(path, id)

AiNext ==
    \/ AiRegister
    \/ AiHandle
    \/ AiDelete

SpecAI == Init /\ [][AiNext]_vars

\* ------------------------------------ generate_dynamic_value (part_000)
\* The Bedrock generator of part_000 and the validator of
\* schema_validator.py, one applied to the value the other returns.

\* A generated value: a dict with its keys, or a string.
Generated(t, fields) == [t |-> t, fields |-> fields]

\* What bedrock_runtime.invoke_model does: it raises, or it returns a
\* completion that json.loads parses into a dict, or one it cannot parse.
BedrockReplies ==
    {Generated("raises", EmptyDict), Generated("text", EmptyDict)}
    \cup {Generated("json", d) :
            d \in Dicts([f \in Fields |->
                          IF f = "a" THEN Values ELSE FewValues])}

\* generate_dynamic_value(schema) of part_000 (Bedrock): the parsed
\* completion, the raw text, or the error dict of the except branch.
bedrock_generate_dynamic_value(reply) ==
    CASE reply.t = "json" -> Generated("dict", reply.fields)
      [] reply.t = "text" -> Generated("str", EmptyDict)
      [] OTHER -> Generated("dict", "error" :> Value("str", GenError))

\* An object schema arrives at the generator.
GenInit ==
    /\ payload = Generated("none", EmptyDict)
    /\ schema \in [required : RequiredLists,
                   properties : Dicts([f \in Fields |->
                                        IF f = "a" THEN FieldSchemas
                                        ELSE FewFieldSchemas])]
    /\ errors = NotValidated
    /\ raised = NotRaised

\* generate_dynamic_value(schema) returns.
GenerateValue ==
    /\ payload.t = "none"
    /\ \E reply \in BedrockReplies :
            payload' = bedrock_generate_dynamic_value(reply)
    /\ UNCHANGED <<seqVars, concVars, pathVars, entVars, histVars, schema, errors,
                   raised>>

\* validate_schema(data, schema) on the generated value: a string has no
\* items(), so the loop over the properties raises AttributeError.
ValidateGenerated ==
    /\ payload.t # "none"
    /\ ~errors.ran
    /\ ~raised.ran
    /\ IF payload.t = "dict"
       THEN /\ errors' = [ran |-> TRUE,
                          list |-> validate_schema(payload.fields, schema)]
            /\ UNCHANGED raised
       ELSE /\ raised' = [ran |-> TRUE, error |-> "AttributeError"]
            /\ UNCHANGED errors
    /\ UNCHANGED <<seqVars, concVars, pathVars, entVars, histVars, payload, schema>>

GenNext ==
    \/ GenerateValue
    \/ ValidateGenerated

InitGen ==
    SeqInit /\ ConcIdle /\ PathIdle /\ GenInit /\ EntIdle /\ HistIdle

SpecGen == InitGen /\ [][GenNext]_vars

\* ------------------------------------ concurrent register_endpoint calls
\* Flask serves each request on its own thread.  The calls below register
\* under one path, so config.yaml is the list of that path's instances; the
\* request and response values have equal serialized length, so every
\* instance takes the same number of bytes in the file.

\* read_config in register_endpoint, then the duplicate check and the append
\* on the private config (generic.py:32-55).  An empty file parses as None
\* and read_config returns {"endpoints": {}}.
ReadConfig(p) ==
    LET data == procs[p].data
        scan == RegisterScan(file, 1, data.request, data.response)
    IN  /\ procs[p].pc = "start"
        /\ procs' =
            [procs EXCEPT ![p] =
                IF scan = "dup"
                THEN [@ EXCEPT !.pc = "done", !.config = file, !.status = 400]
                ELSE IF scan = "keyerror"
                THEN [@ EXCEPT !.pc = "done", !.config = file, !.status = 500]
                ELSE [@ EXCEPT !.pc = "read",
                        !.config =
                            Append(file,
                                RegisteredInstance(p, MethodOf(data),
                                    data.request, data.response))]]
        /\ UNCHANGED <<file, reader, complete>>

\* write_config, first half: open(CONFIG_FILE, "w") truncates the file.
OpenConfig(p) ==
    /\ procs[p].pc = "read"
    /\ file' = <<>>
    /\ procs' = [procs EXCEPT ![p].pc = "opened"]
    /\ complete' = complete \cup {procs[p].config}
    /\ UNCHANGED reader

\* What the file holds after `written` is written at offset 0 of a file
\* holding `old`: the bytes of `old` beyond the end of `written` stay.
Overlay(written, old) == written \o SubSeq(old, Len(written) + 1, Len(old))

\* write_config, second half: yaml.dump's output reaches the file when the
\* with block closes it; the handler then answers 200.
FlushConfig(p) ==
    /\ procs[p].pc = "opened"
    /\ file' = Overlay(procs[p].config, file)
    /\ procs' = [procs EXCEPT ![p].pc = "done", ![p].status = 200]
    /\ UNCHANGED <<reader, complete>>

\* read_config of a concurrent get_all_endpoints.
ReaderRead ==
    /\ ~reader.done
    /\ reader' = [done |-> TRUE, seen |-> file]
    /\ UNCHANGED <<file, procs, complete>>

ConcRead == /\ UNCHANGED <<seqVars, restVars>>
            /\ \E p \in Procs : ReadConfig(p)
ConcOpen == /\ UNCHANGED <<seqVars, restVars>>
            /\ \E p \in Procs : OpenConfig(p)
ConcFlush == /\ UNCHANGED <<seqVars, restVars>>
             /\ \E p \in Procs : FlushConfig(p)
ConcReader == /\ UNCHANGED <<seqVars, restVars>>
              /\ ReaderRead

ConcNext ==
    \/ ConcRead
    \/ ConcOpen
    \/ ConcFlush
    \/ ConcReader

\* Two register_endpoint calls arrive together at a server just started.
InitConc == SeqInit /\ ConcInit /\ RestIdle

SpecConc == InitConc /\ [][ConcNext]_vars

\* ================================================================== claims

\* The (request, response) pair of a registration body equals that of a
\* stored instance.
SamePair(inst, data) ==
    /\ data.request # Absent /\ data.response # Absent
    /\ inst.request = data.request /\ inst.response = data.response

\* The body's pair is stored under the normalized path.
PairStored(path, data) ==
    LET insts == InstancesOf(endpoints, normalize_path(path))
    IN  \E i \in 1..Len(insts) : SamePair(insts[i], data)

\* C1: in every reachable state no two instances stored under one path (that
\* hold a request and a response) have equal (request, response) pairs.
C1_NoDuplicatePairs ==
    \A p \in DOMAIN endpoints :
        \A i, j \in 1..Len(endpoints[p]) :
            (i < j /\ HasPair(endpoints[p][i]) /\ HasPair(endpoints[p][j]))
            => ~(/\ endpoints[p][i].request = endpoints[p][j].request
                 /\ endpoints[p][i].response = endpoints[p][j].response)

\* C2: register_endpoint with a request and response that both equal those
\* of an instance stored under the normalized path answers with an error
\* status, leaves the registry as it was and does not call write_config.
C2_DuplicateRejected ==
    \A path \in RawPaths, data \in RegisterInputs :
        PairStored(path, data)
        => LET out == RegisterOutcome(endpoints, nextId, path, data)
           IN  /\ out.call.status \in {400, 500}
               /\ out.endpoints = endpoints
               /\ ~out.call.wrote

\* C2 witness: a registration was rejected as a duplicate of a stored pair.
C2_Witness ==
    /\ last.op = "register"
    /\ last.status = 400
    /\ last.message = "Duplicate request and response"
    /\ last.path \in DOMAIN endpoints
    /\ endpoints[last.path] # <<>>

C7_UniqueIds ==
    \A p \in DOMAIN endpoints :
        \A i, j \in 1..Len(endpoints[p]) :
            i < j => endpoints[p][i].id # endpoints[p][j].id

\* C8: a successful register call on a path followed immediately by a handle
\* call on the same path never yields status 400 (a registration stores no
\* request schema).
C8_HandleAfterRegister ==
    [][(/\ last.op = "register" /\ last.status = 200
        /\ last'.op = "handle" /\ last'.path = last.path)
       => last'.status # 400]_vars

\* The literal responses stored under a path.
LiteralResponses(path) ==
    LET insts == InstancesOf(endpoints, path)
    IN  {insts[i].response : i \in {k \in 1..Len(insts) :
                                        insts[k].response # Absent}}

\* C9: handle on a path whose registered instance stores a literal response
\* returns exactly that stored response; a value is generated only when no
\* literal response is stored.
C9_LiteralReturned ==
    (last.op = "handle" /\ LiteralResponses(last.path) # {})
    => /\ last.status = 200
       /\ last.body # <<>>
       /\ \A j \in 1..Len(last.body) :
            last.body[j].response \in LiteralResponses(last.path)
\* The number of instances stored under a path in either registry.
StoredCount(e, ai, path) ==
    Len(InstancesOf(e, path)) + Cardinality(DOMAIN AiDictOf(ai, path))

\* C10: every handle call that returns a success status has added at least
\* one instance to the registry entry of the requested path and has called
\* write_config.
C10_HandleRecords ==
    [][(last'.op \in {"handle", "ai_handle"} /\ last'.status = 200)
       => /\ last'.wrote
          /\ StoredCount(endpoints', aiEndpoints', last'.path)
                > StoredCount(endpoints, aiEndpoints, last'.path)]_vars
\* Both concurrent calls have returned success.
BothSucceeded == \A p \in Procs : procs[p].pc = "done" /\ procs[p].status = 200

\* The number of instances in config.yaml that hold the pair of a body.
CopiesInFile(data) ==
    Cardinality({i \in 1..Len(file) : SamePair(file[i], data)})

\* C4: when two concurrent register_endpoint calls for one path with distinct
\* pairs have both returned success, both instances are in config.yaml.
C4_NoLostRegistration ==
    (/\ BothSucceeded
     /\ <<procs[1].data.request, procs[1].data.response>>
            # <<procs[2].data.request, procs[2].data.response>>)
    => \A p \in Procs : CopiesInFile(procs[p].data) >= 1

\* C5: two concurrent register_endpoint calls with the same path, request
\* and response never end with both reporting success and two identical
\* instances stored under the path.
C5_NoConcurrentDuplicate ==
    ~(/\ BothSucceeded
      /\ procs[1].data = procs[2].data
      /\ CopiesInFile(procs[1].data) >= 2)

\* C6: a read_config that runs while another request executes write_config
\* returns the complete registry as it was before that write or after it,
\* never an empty or partially written one.
C6_ReadsSeeCompleteRegistry ==
    reader.done => reader.seen \in complete

\* A path without a registry entry answers 404 to list, fetch-by-id and
\* handle calls, however the path is spelled.
AnswersNotFound(e, id, np) ==
    \A path \in RawPaths :
        normalize_path(path) = np
        => /\ GetAllOutcome(e, id, path).call.status = 404
           /\ \A k \in AllIds : GetOutcome(e, id, path, k).call.status = 404
           /\ \A raises \in BOOLEAN, gen \in GenChoicesOn(e, path) :
                HandleOutcome(e, id, path, gen, raises).call.status = 404

\* No list, fetch, update, delete or handle call on any path gives the path
\* np a registry entry.
StaysUnregistered(e, id, np) ==
    \A path \in RawPaths :
        /\ np \notin DOMAIN GetAllOutcome(e, id, path).endpoints
        /\ np \notin DOMAIN DeleteAllOutcome(e, id, path).endpoints
        /\ \A k \in AllIds :
            /\ np \notin DOMAIN GetOutcome(e, id, path, k).endpoints
            /\ np \notin DOMAIN DeleteOutcome(e, id, path, k).endpoints
            /\ \A data \in Patches :
                np \notin DOMAIN UpdateOutcome(e, id, path, k, data).endpoints
        /\ \A raises \in BOOLEAN, gen \in GenChoicesOn(e, path) :
            np \notin DOMAIN HandleOutcome(e, id, path, gen, raises).endpoints

\* C11: delete_all_endpoints on a registered path succeeds, leaves no
\* instance of the path and leaves the other paths as they were; as long as
\* the path is not registered again, list, fetch-by-id and handle calls on it
\* answer 404 and no other call brings the path back.
C11_DeleteAllRemovesPath ==
    /\ \A path \in RawPaths :
        LET np == normalize_path(path)
            out == DeleteAllOutcome(endpoints, nextId, path)
        IN  np \in DOMAIN endpoints
            => /\ out.call.status = 200
               /\ InstancesOf(out.endpoints, np) = <<>>
               /\ DOMAIN out.endpoints = DOMAIN endpoints \ {np}
               /\ \A q \in DOMAIN out.endpoints :
                    out.endpoints[q] = endpoints[q]
               /\ AnswersNotFound(out.endpoints, out.nextId, np)
    /\ \A np \in NormPaths :
        np \notin DOMAIN endpoints
        => /\ AnswersNotFound(endpoints, nextId, np)
           /\ StaysUnregistered(endpoints, nextId, np)

\* C11 witness: delete_all_endpoints removed a path and another path is
\* still registered.
C11_Witness ==
    /\ last.op = "delete_all"
    /\ last.status = 200
    /\ last.path \notin DOMAIN endpoints
    /\ \E q \in DOMAIN endpoints : endpoints[q] # <<>>

\* C12: delete_endpoint with an id that an instance of the path carries
\* answers 200, removes one instance with that id and leaves the other
\* instances of the path, in their order, and the other paths as they were;
\* with an unknown path or an id no instance carries it answers 404, leaves
\* the registry as it was and does not call write_config.
C12_DeleteOneInstance ==
    \A path \in RawPaths, k \in AllIds :
        LET np == normalize_path(path)
            old == InstancesOf(endpoints, np)
            out == DeleteOutcome(endpoints, nextId, path, k)
            new == InstancesOf(out.endpoints, np)
        IN  IF \E i \in 1..Len(old) : old[i].id = k
            THEN /\ out.call.status = 200
                 /\ Len(new) = Len(old) - 1
                 /\ \E i \in 1..Len(old) :
                        /\ old[i].id = k
                        /\ \A j \in 1..(i - 1) : new[j] = old[j]
                        /\ \A j \in i..Len(new) : new[j] = old[j + 1]
                 /\ DOMAIN out.endpoints = DOMAIN endpoints
                 /\ \A q \in DOMAIN endpoints \ {np} :
                        out.endpoints[q] = endpoints[q]
            ELSE /\ out.call.status = 404
                 /\ out.endpoints = endpoints
                 /\ ~out.call.wrote

\* C12 witness: delete_endpoint removed an instance of a path that still
\* holds another instance.
C12_Witness ==
    /\ last.op = "delete"
    /\ last.status = 200
    /\ last.path \in DOMAIN endpoints
    /\ endpoints[last.path] # <<>>

\* C13: update_endpoint on a path that is not registered, or with an id that
\* no instance of the path carries, answers 404, leaves the registry as it
\* was and does not call write_config.
C13_UpdateNotFound ==
    \A path \in RawPaths, k \in AllIds, data \in Patches :
        LET old == InstancesOf(endpoints, normalize_path(path))
            out == UpdateOutcome(endpoints, nextId, path, k, data)
        IN  (\A i \in 1..Len(old) : old[i].id # k)
            => /\ out.call.status = 404
               /\ out.endpoints = endpoints
               /\ ~out.call.wrote

\* C13 witness: update_endpoint answered 404 for an id that no instance of a
\* registered, non-empty path carries.
C13_Witness ==
    /\ last.op = "update"
    /\ last.status = 404
    /\ ~last.wrote
    /\ last.path \in DOMAIN endpoints
    /\ endpoints[last.path] # <<>>

\* The instance `new` is `old` with the keys the patch names set to the
\* patch's values and every other key as it was.
Merged(new, old, data) ==
    /\ new.id = (IF data.id = 0 THEN old.id ELSE data.id)
    /\ new.request = (IF data.request = Absent THEN old.request
                      ELSE data.request)
    /\ new.response = (IF data.response = Absent THEN old.response
                       ELSE data.response)
    /\ new.request_schema = (IF data.request_schema = Absent
                             THEN old.request_schema
                             ELSE data.request_schema)
    /\ new.response_schema = (IF data.response_schema = Absent
                              THEN old.response_schema
                              ELSE data.response_schema)
    /\ new.method = old.method
    /\ new.generated_request = old.generated_request
    /\ new.generated_response = old.generated_response

\* C14: a successful update_endpoint changes one instance that carries the
\* id: the keys the patch names take the patch's values, its other keys keep
\* theirs, and every other instance and path is as it was.
C14_UpdateMergesPatch ==
    \A path \in RawPaths, k \in AllIds, data \in Patches :
        LET np == normalize_path(path)
            old == InstancesOf(endpoints, np)
            out == UpdateOutcome(endpoints, nextId, path, k, data)
            new == InstancesOf(out.endpoints, np)
        IN  out.call.status = 200
            => /\ out.call.wrote
               /\ Len(new) = Len(old)
               /\ \E i \in 1..Len(old) :
                    /\ old[i].id = k
                    /\ Merged(new[i], old[i], data)
                    /\ \A j \in 1..Len(old) : j # i => new[j] = old[j]
               /\ DOMAIN out.endpoints = DOMAIN endpoints
               /\ \A q \in DOMAIN endpoints \ {np} :
                    out.endpoints[q] = endpoints[q]

\* C14 witness: update_endpoint succeeded on a path that holds another
\* instance too.
C14_Witness ==
    /\ last.op = "update"
    /\ last.status = 200
    /\ last.path \in DOMAIN endpoints
    /\ Len(endpoints[last.path]) >= 2

\* A call that answers 200 has run write_config, and config.yaml then holds
\* the registry the call built; a call that answers 400 or 404 has not run
\* write_config and config.yaml holds what it held.
SavedIffSuccess(e, out) ==
    /\ out.call.status \in {200, 400, 404, 500}
    /\ out.call.status = 200 => out.call.wrote
    /\ out.call.status \in {400, 404}
        => ~out.call.wrote /\ out.endpoints = e

\* C15: register_endpoint, update_endpoint, delete_endpoint and
\* delete_all_endpoints call write_config with the registry they built
\* whenever they answer with a success status, and do not call it when they
\* answer 400 or 404.
C15_WriteOnSuccessOnly ==
    \A path \in RawPaths :
        /\ \A data \in RegisterInputs :
            SavedIffSuccess(endpoints,
                RegisterOutcome(endpoints, nextId, path, data))
        /\ SavedIffSuccess(endpoints,
                DeleteAllOutcome(endpoints, nextId, path))
        /\ \A k \in AllIds :
            /\ SavedIffSuccess(endpoints,
                    DeleteOutcome(endpoints, nextId, path, k))
            /\ \A data \in Patches :
                SavedIffSuccess(endpoints,
                    UpdateOutcome(endpoints, nextId, path, k, data))

\* C15 witness: a registration was saved next to an instance stored before.
C15_Witness ==
    /\ last.op = "register"
    /\ last.status = 200
    /\ last.wrote
    /\ last.path \in DOMAIN endpoints
    /\ Len(endpoints[last.path]) >= 2

\* The call whose write_config raised answered 500 and ran write_config
\* once.
FailureSurfaced(e, out, caught) ==
    \A kept \in BOOLEAN :
        LET bad == WriteFails(e, out, caught, kept)
        IN  out.call.wrote
            => /\ bad.call.status = 500
               /\ bad.call.writes = 1

Core(p) ==
    LET letters == {i \in 1..Len(p) : p[i] # "/"}
    IN  IF letters = {} THEN <<>>
        ELSE SubSeq(p, CHOOSE i \in letters : \A j \in letters : i <= j,
                       CHOOSE i \in letters : \A j \in letters : i >= j)

\* A normalized path starts with exactly one slash and, unless it is the
\* root, does not end with one.
WellFormed(n) ==
    /\ n # <<>>
    /\ n[1] = "/"
    /\ Len(n) > 1 => n[2] # "/" /\ n[Len(n)] # "/"

\* C20: normalize_path returns a string that starts with exactly one slash
\* and does not end with one unless it is the root, and returns its own
\* result unchanged; for two spellings that differ only in leading or
\* trailing slashes, register, list, update and delete calls do the same to
\* the registry and answer the same.
C20_NormalizePath ==
    /\ normalized.once # NotYet
        => WellFormed(normalized.once[1]) /\ WellFormed(normalized.once[2])
    /\ normalized.twice # NotYet => normalized.twice = normalized.once
    /\ Core(raw[1]) = Core(raw[2])
        => /\ normalized.once # NotYet
                => normalized.once[1] = normalized.once[2]
           /\ RegisterOutcome(endpoints, nextId, raw[1], PathBody)
                = RegisterOutcome(endpoints, nextId, raw[2], PathBody)
           /\ GetAllOutcome(endpoints, nextId, raw[1])
                = GetAllOutcome(endpoints, nextId, raw[2])
           /\ DeleteAllOutcome(endpoints, nextId, raw[1])
                = DeleteAllOutcome(endpoints, nextId, raw[2])
           /\ \A k \in AllIds :
                /\ UpdateOutcome(endpoints, nextId, raw[1], k, PathPatch)
                    = UpdateOutcome(endpoints, nextId, raw[2], k, PathPatch)
                /\ DeleteOutcome(endpoints, nextId, raw[1], k)
                    = DeleteOutcome(endpoints, nextId, raw[2], k)

\* C20 witness: an instance registered under one spelling was updated under
\* another, and normalize_path was applied twice to both.
C20_Witness ==
    /\ raw[1] # raw[2]
    /\ Len(raw[1]) = MaxPathLen
    /\ normalized.twice # NotYet
    /\ last.op = "update"
    /\ last.status = 200

\* The required properties a body lacks.
MissingFields(data, required) ==
    {required[i] : i \in {j \in 1..Len(required) :
                            required[j] \notin DOMAIN data}}

\* The present, declared properties whose value the validator's type test
\* rejects.
WrongTypeFields(data, properties) ==
    {f \in DOMAIN data \cap DOMAIN properties :
        /\ properties[f].type # Absent
        /\ ~validate_type(data[f], properties[f].type)}

\* The errors of one kind in a list of errors.
ErrorsOfKind(list, kind) == {i \in 1..Len(list) : list[i].kind = kind}

\* C17: for a body that lacks k required properties and has m present
\* declared properties of the wrong type, validate_schema of
\* schema_validator.py returns, and validate_request_body of app.py has the
\* handler report in its 400 response, all k + m violations.
C17_AllViolationsReported ==
    LET k == Cardinality(MissingFields(payload, schema.required))
        m == Cardinality(WrongTypeFields(payload, schema.properties))
    IN  /\ errors.ran
            => /\ Cardinality(ErrorsOfKind(errors.list, "missing")) = k
               /\ Cardinality(ErrorsOfKind(errors.list, "type")) = m
        /\ raised.ran /\ k + m > 0
            => (IF raised.error = Absent THEN 0 ELSE 1) = k + m

\* The value's runtime type is the declared type (an integer is a number).
HasDeclaredType(value, declared) ==
    CASE declared = "string" -> value.t = "str"
      [] declared = "integer" -> value.t = "int"
      [] declared = "number" -> value.t \in {"int", "float"}
      [] declared = "boolean" -> value.t = "bool"
      [] declared = "array" -> value.t = "list"
      [] declared = "object" -> value.t = "dict"

\* C18: for every declared type among string, integer, number, boolean,
\* array and object and every value, validate_schema reports a type error
\* for a present declared property exactly when the runtime type of its
\* value is not the declared type.
C18_TypeErrorsExact ==
    errors.ran
    => \A f \in DOMAIN payload \cap DOMAIN schema.properties :
        schema.properties[f].type
            \in {"string", "integer", "number", "boolean", "array", "object"}
        => ((\E i \in 1..Len(errors.list) :
                errors.list[i] = Error("type", f))
            <=> ~HasDeclaredType(payload[f], schema.properties[f].type))

\* The server's own validation turns the body down.
Rejects(server, data) ==
    CASE server = "app" ->
            validate_request_body(data.fields, EntSchema.required, 1) # Absent
      [] server = "schema_validator" ->
            validate_schema(data.fields, EntSchema) # <<>>
      [] OTHER -> ~JsonSchemaValid(data.fields, EntSchema)

\* The entities of the type that the handler object h holds.
Entities(server, h) ==
    IF server = "utils"
    THEN IF EntityType \in DOMAIN h.storage
         THEN {h.storage[EntityType][i] :
                  i \in 1..Len(h.storage[EntityType])}
         ELSE {}
    ELSE IF EntityType \in DOMAIN h.store
         THEN {h.store[EntityType][i] : i \in DOMAIN h.store[EntityType]}
         ELSE {}

\* The id that a successful create on h assigns.
NextCreateId(server, h) ==
    IF server = "utils"
    THEN IF EntityType \in DOMAIN h.storage
         THEN Len(h.storage[EntityType]) + 1
         ELSE 1
    ELSE get_or_create_store(h, EntityType).id_counters[EntityType]

C21_DuplicateIs409 ==
    (last.op = "register" /\ last.message = "Duplicate request and response")
        => last.status = 409

\* The names a schema mentions in a $ref.
RefsOf(defs, name) == {defs[name].ref, defs[name].child} \ {Absent}

\* The names reached from `from` by following at least one and at most n
\* references.
RECURSIVE ReachedIn(_, _, _)
ReachedIn(defs, from, n) ==
    IF n = 0 THEN {}
    ELSE LET near == UNION {RefsOf(defs, name) : name \in from}
         IN  near \cup ReachedIn(defs, near, n - 1)

\* The references of the schema `name` lead into a chain that returns to
\* one of its own members.
SelfReferential(defs, name) ==
    \E member \in {name} \cup ReachedIn(defs, {name}, Cardinality(SchemaNames)) :
        member \in ReachedIn(defs, {member}, Cardinality(SchemaNames))

\* C22: for every schema whose references form a self-referential chain,
\* validate_schema of utils.py ends by reporting a cyclic-reference error.
C22_CyclicReferenceReported ==
    (raised.ran /\ schema \in [SchemaNames -> SchemaNodes]
        /\ SelfReferential(schema, "A"))
        => raised.error = "CyclicReference"

\* C23: for every object schema, the value generate_dynamic_value returns
\* validates against that schema with zero errors.
C23_GeneratedValueValid ==
    (errors.ran \/ raised.ran) => (errors.ran /\ errors.list = <<>>)

\* C24: a registration whose request and response equal those of an instance
\* stored under the path, and whose method differs from the method of every
\* such instance, is accepted and stored.
C24_MethodDistinguishes ==
    \A path \in RawPaths, data \in MethodRegisterInputs :
        LET insts == InstancesOf(endpoints, normalize_path(path))
            same == {i \in 1..Len(insts) :
                        /\ insts[i].request = data.request
                        /\ insts[i].response = data.response}
            out == RegisterOutcome(endpoints, nextId, path, data)
        IN  (same # {} /\ \A i \in same : insts[i].method # MethodOf(data))
            => /\ out.call.status = 200
               /\ Len(InstancesOf(out.endpoints, normalize_path(path)))
                    = Len(insts) + 1

\* C25: once an instance has been deleted by delete_endpoint or by
\* delete_all_endpoints, get_endpoint, update_endpoint and delete_endpoint
\* with its id under its path answer 404 from then on.
C25_DeletedIsTerminal ==
    \A pair \in deleted :
        /\ GetOutcome(endpoints, nextId, pair[1], pair[2]).call.status = 404
        /\ DeleteOutcome(endpoints, nextId, pair[1], pair[2]).call.status
            = 404
        /\ \A data \in Patches :
            UpdateOutcome(endpoints, nextId, pair[1], pair[2], data)
                .call.status = 404

\* The endpoints of a path that no other endpoint of the path precedes in
\* registration time.
FirstRegistered(d) ==
    {i \in DOMAIN d : \A j \in DOMAIN d : d[i].created_at <= d[j].created_at}

\* C26: when several endpoints are registered under a path,
\* handle_dynamic_request answers from the one that was registered first,
\* the registry being read back from config.yaml at every call.
C26_FirstRegisteredAnswers ==
    (last.op = "ai_handle" /\ last.status = 200)
        => last.body[1].id \in FirstRegistered(aiEndpoints[last.path])

\* C27: on a route whose template has one parameter, whatever its name, GET,
\* PUT and DELETE operate on the stored entity whose id is the value of the
\* parameter: GET returns that entity, PUT (with a body the server accepts)
\* succeeds on it and DELETE removes it.
C27_ParameterBindsId ==
    impl \in {"app", "schema_validator"} =>
        \A name \in ParamNames, value \in EntIds :
            LET ents == get_or_create_store(CurrentHandler, EntityType)
                            .store[EntityType]
                Out(method, data) ==
                    ServeKwargs(impl, CurrentHandler, method,
                                Kwargs(name, value), data)
                got == Out("get", [id |-> 0, fields |-> EmptyDict])
                del == Out("delete", [id |-> 0, fields |-> EmptyDict])
            IN  value \in DOMAIN ents =>
                    /\ got.call.status = 200
                    /\ got.call.body = <<ents[value]>>
                    /\ del.call.status = 200
                    /\ value \notin DOMAIN del.h.store[EntityType]
                    /\ \A data \in EntBodies :
                        ~Rejects(impl, data) =>
                            Out("put", data).call.status = 200

\* C28: every instance register_endpoint of test.py has stored, the first of
\* its path included, is returned by get_endpoint for some endpoint_id.
C28_EveryInstanceAddressable ==
    \A path \in RawPaths :
        LET insts == InstancesOf(endpoints, normalize_path(path))
        IN  \A i \in 1..Len(insts) :
                \E endpoint_id \in AllIds :
                    /\ GetOutcome(endpoints, nextId, path, endpoint_id)
                            .call.status = 200
                    /\ FindId(insts, 1, endpoint_id) = i

\* The entity that the handler object h holds under entity_id.
StoredAt(server, h, entity_id) ==
    IF server = "utils"
    THEN h.storage[EntityType][EntityIndex(h.storage[EntityType], entity_id)]
    ELSE h.store[EntityType][entity_id]

\* C29: update merges in all three servers: after an update answered 200,
\* every field of the stored entity that the body does not mention has the
\* value it had before.
C29_UpdateMerges ==
    impl \in Impls =>
        \A entity_id \in EntIds, data \in EntBodies :
            LET out == Serve(impl, CurrentHandler, "put", entity_id, data)
            IN  out.call.status = 200 =>
                    LET old == StoredAt(impl, CurrentHandler, entity_id)
                        new == StoredAt(impl, out.h, entity_id)
                    IN  \A f \in DOMAIN old.fields \ DOMAIN data.fields :
                            /\ f \in DOMAIN new.fields
                            /\ new.fields[f] = old.fields[f]

\* C30: two concurrent create calls for one entity type never hold the same
\* id, and once both have returned each one's entity is stored under its id.
C30_ConcurrentCreatesDistinct ==
    \A p \in Procs : \A q \in Procs \ {p} :
        /\ (procs[p].pc # "read" /\ procs[q].pc # "read")
                => procs[p].entity_id # procs[q].entity_id
        /\ (procs[p].pc = "done" /\ procs[q].pc = "done")
                => /\ procs[p].entity_id \in DOMAIN store[EntityType]
                   /\ store[EntityType][procs[p].entity_id].fields
                        = procs[p].data.fields

\* The entities of the list have pairwise distinct ids.
DistinctIds(entities) ==
    \A i \in 1..Len(entities), j \in 1..Len(entities) :
        i # j => entities[i].id # entities[j].id

\* The list that the handler object h of utils.py keeps for the type.
StorageOf(h) ==
    IF EntityType \in DOMAIN h.storage THEN h.storage[EntityType] ELSE <<>>

\* C31: in utils.py the stored entities of a type have pairwise distinct
\* ids after any sequence of creates, updates and deletes: also after the
\* next create, whatever its body.
C31_StoredIdsDistinct ==
    impl = "utils" =>
        /\ DistinctIds(StorageOf(CurrentHandler))
        /\ \A data \in EntBodies :
            DistinctIds(StorageOf(
                Serve(impl, CurrentHandler, "post", 1, data).h))

\* The id that the next create on the handler object h assigns.
Counter(h) ==
    IF EntityType \in DOMAIN h.id_counters THEN h.id_counters[EntityType]
    ELSE 1

\* The keys of the store that h keeps for the type.
Keys(h) ==
    IF EntityType \in DOMAIN h.store THEN DOMAIN h.store[EntityType] ELSE {}

\* C32: in app.py and schema_validator.py the counter of a type is greater
\* than every key of its store; a successful create stores its entity under
\* the counter's value (1 on a new handler) and adds 1 to the counter, and
\* no other request changes the counter: ids go up by 1 and none is assigned
\* twice, also after a delete.
C32_IdsIncrease ==
    impl \in {"app", "schema_validator"} =>
        /\ \A k \in Keys(CurrentHandler) : k < Counter(CurrentHandler)
        /\ \A method \in Methods, entity_id \in EntIds, data \in EntBodies :
            LET out == Serve(impl, CurrentHandler, method, entity_id, data)
            IN  IF out.call.status = 201
                THEN /\ Keys(out.h)
                            = Keys(CurrentHandler)
                                \cup {Counter(CurrentHandler)}
                     /\ out.h.store[EntityType][Counter(CurrentHandler)].id
                            = Counter(CurrentHandler)
                     /\ Counter(out.h) = Counter(CurrentHandler) + 1
                ELSE Counter(out.h) = Counter(CurrentHandler)

\* C32 witness: a create has succeeded after an entity with a smaller id was
\* deleted.
C32_Witness ==
    /\ impl \in {"app", "schema_validator"}
    /\ last.op = "create"
    /\ last.status = 201
    /\ \E k \in 1..(Counter(CurrentHandler) - 2) :
        k \notin Keys(CurrentHandler)
    /\ (Counter(CurrentHandler) - 1) \in Keys(CurrentHandler)

\* C33: in all three servers the id field of a stored entity is the id it is
\* stored under, and an update answered 200 leaves the entity with the id of
\* the request's path, whatever id the body carries.
C33_IdFieldIsKey ==
    impl \in Impls =>
        /\ \A k \in Keys(CurrentHandler) : store[EntityType][k].id = k
        /\ \A entity_id \in EntIds, data \in EntBodies :
            LET out == Serve(impl, CurrentHandler, "put", entity_id, data)
            IN  out.call.status = 200 =>
                    /\ entity_id \in {e.id : e \in Entities(impl, out.h)}
                    /\ StoredAt(impl, out.h, entity_id).id = entity_id

C35_KeyIffInstances ==
    \A path \in RawPaths :
        LET np == normalize_path(path)
        IN  /\ np \in DOMAIN endpoints <=> InstancesOf(endpoints, np) # <<>>
            /\ InstancesOf(endpoints, np) = <<>> =>
                GetAllOutcome(endpoints, nextId, path).call.status = 404

\* C36: handle_dynamic_request_response comes to an end although its loop
\* appends to the list it runs over: a call that has answered 200 appended at
\* most as many instances as the path held when the call began.
C36_HandleAppendsAtMostStored ==
    (last.op = "handle" /\ last.status = 200) =>
        LET appended == Len(last.body)
            before == Len(endpoints[last.path]) - appended
        IN  appended <= before

\* C36 witness: a handle call has run over a list in which every instance
\* carried both schemas, and appended one instance for each.
C36_Witness ==
    /\ last.op = "handle"
    /\ last.status = 200
    /\ Len(last.body) >= 1
    /\ Len(endpoints[last.path]) = 2 * Len(last.body)

\* C37: in app.py, get_one with the id a create returned answers 200 with
\* the created entity; after a delete of an id has succeeded, get_one, update
\* and delete with that id answer 404 and change nothing; and neither the
\* create nor the delete touches another entity of the type.
C37_CreateGetDelete ==
    impl = "app" =>
        /\ \A data \in EntBodies :
            LET made == create(CurrentHandler, EntityType, data)
                id == Counter(CurrentHandler)
                got == get_one(made.h, EntityType, id)
            IN  /\ made.call.status = 201
                /\ got.call.status = 200
                /\ got.call.body = <<[id |-> id, fields |-> data.fields]>>
                /\ got.h = made.h
                /\ \A k \in Keys(CurrentHandler) :
                    made.h.store[EntityType][k] = store[EntityType][k]
        /\ \A entity_id \in EntIds :
            LET gone == delete(CurrentHandler, EntityType, entity_id)
            IN  gone.call.status = 200 =>
                    /\ Keys(gone.h) = Keys(CurrentHandler) \ {entity_id}
                    /\ \A k \in Keys(gone.h) :
                        gone.h.store[EntityType][k] = store[EntityType][k]
                    /\ get_one(gone.h, EntityType, entity_id)
                        = [h |-> gone.h, call |-> Reply("get_one", 404)]
                    /\ delete(gone.h, EntityType, entity_id)
                        = [h |-> gone.h, call |-> Reply("delete", 404)]
                    /\ \A data \in EntBodies :
                        app_update(gone.h, EntityType, entity_id, data)
                            = [h |-> gone.h, call |-> Reply("update", 404)]

\* C37 witness: the server of app.py has answered a get_one with 404 after
\* an entity was created and deleted.
C37_Witness ==
    /\ impl = "app"
    /\ last.op = "get_one"
    /\ last.status = 404
    /\ \E k \in 1..(Counter(CurrentHandler) - 1) : k \notin Keys(CurrentHandler)

====
